---- MODULE Spec2Model ----
(***************************************************************************)
(* Model of the civic_educator retrieval-augmented answering core:         *)
(*   ingestion/chunker.py        SemanticChunker                           *)
(*   ingestion/index_builder.py  DocumentIndex                             *)
(*   models/reranker.py          Reranker                                  *)
(*   rag/pipeline.py             RAGPipeline                               *)
(*   api/routes_retrieval.py     search / reindex endpoints                *)
(*                                                                         *)
(* Text is a sequence of one-character strings (a fixed phrase is a single *)
(* element).  Scores are integers in thousandths (1.0 = 1000).  Python     *)
(* positions are 0-based, TLA+ sequences 1-based: xs[i] is xs[i + 1] here. *)
(***************************************************************************)
EXTENDS Integers, Sequences, FiniteSets, Bags, TLC

VARIABLES
  dix,            \* SpecIndex: the DocumentIndex under test
  last,           \* SpecIndex, SpecRank: the last operation and its outcome
  producedBy,     \* SpecIndex: per chunk, the doc_id its add_document returned
  heap,           \* the DocumentIndex instances that exist
  pipelineIndex,  \* RAGPipeline.index: a position in heap
  cfg,            \* the pipeline's generator and web-search configuration
  disk,           \* the files under INDEX_DIR
  ask,            \* SpecQuery: the request running RAGPipeline.query
  answers,        \* SpecQuery: the files under ANSWERS_DIR
  webAnswered,    \* SpecQuery: the questions answered from a web result
  kb,             \* SpecReindex: the files under KNOWLEDGE_BASE_DIR
  rx,             \* SpecReindex: the request running reindex_kb
  sr,             \* SpecReindex: the request running search_documents
  published,      \* SpecReindex: the indexes the pipeline has been given
  db,             \* the application database: the committed incidents
  req,            \* per database session, the service call it is running
  routers         \* per API router, its pipeline singleton's index (in heap)

indexVars == <<dix, last, producedBy>>
pipeVars == <<heap, pipelineIndex, cfg, disk>>
queryVars == <<ask, answers, webAnswered>>
reindexVars == <<kb, rx, sr, published>>
appVars == <<db, req, routers>>
vars == <<dix, last, producedBy, heap, pipelineIndex, cfg, disk, ask, answers, webAnswered,
          kb, rx, sr, published, db, req, routers>>

----------------------------------------------------------------------------
(* Bounds of the model *)

\* scaled-down chunker configuration (chunk_size / chunk_overlap)
ChunkSize == 3
ChunkOverlap == 2
\* documents per DocumentIndex instance
MaxDocs == 2
\* vectors one vector index may hold (caps repeated build_index calls)
MaxVectors == 4
\* largest k passed to DocumentIndex.search
MaxK == 2

----------------------------------------------------------------------------
(* Generic helpers *)

NL == "\n"

Min2(a, b) == IF a < b THEN a ELSE b
Max2(a, b) == IF a > b THEN a ELSE b

\* Python's dict.get(key, default)
Get(m, key, default) == IF key \in DOMAIN m THEN m[key] ELSE default

\* Python's s[i:] on a sequence, i >= 0 (0-based start)
SliceFrom(s, i) == SubSeq(s, i + 1, Len(s))

\* Python's s[:n]
Take(s, n) == SubSeq(s, 1, Min2(n, Len(s)))

RECURSIVE Join(_, _)
\* Python's sep.join(parts)
Join(parts, sep) ==
  IF parts = <<>> THEN <<>>
  ELSE IF Len(parts) = 1 THEN parts[1]
  ELSE parts[1] \o sep \o Join(Tail(parts), sep)

IsSpace(c) == c \in {" ", NL}

RECURSIVE LStrip(_)
LStrip(s) == IF s # <<>> /\ IsSpace(s[1]) THEN LStrip(Tail(s)) ELSE s

RECURSIVE RStrip(_)
RStrip(s) ==
  IF s # <<>> /\ IsSpace(s[Len(s)]) THEN RStrip(SubSeq(s, 1, Len(s) - 1)) ELSE s

\* Python's str.strip()
Strip(s) == RStrip(LStrip(s))

----------------------------------------------------------------------------
(* ingestion/chunker.py *)

\* hashlib.md5(text).hexdigest()[:8]: a digest determined by the text
md5hex8(text) == <<"md5", text>>

\* SemanticChunker._generate_chunk_id
_generate_chunk_id(text, metadata) ==
  <<Get(metadata, "source", "unknown"), md5hex8(text)>>

\* SemanticChunker._create_chunk
_create_chunk(text_parts, metadata) ==
  LET text == Join(text_parts, <<NL, NL>>)
  IN  [text |-> text, metadata |-> metadata,
       chunk_id |-> _generate_chunk_id(text, metadata)]

RECURSIVE WsRunEnd(_, _)
\* last position of the whitespace run that contains position i
WsRunEnd(t, i) ==
  IF i < Len(t) /\ IsSpace(t[i + 1]) THEN WsRunEnd(t, i + 1) ELSE i

\* last newline in t[i..e], 0 when there is none
LastNL(t, i, e) ==
  LET ps == {p \in i..e : t[p] = NL}
  IN  IF ps = {} THEN 0 ELSE CHOOSE p \in ps : \A r \in ps : r <= p

RECURSIVE SplitFrom(_, _, _)
SplitFrom(t, start, i) ==
  IF i > Len(t) THEN <<SubSeq(t, start, Len(t))>>
  ELSE IF t[i] = NL
       THEN LET p == LastNL(t, i, WsRunEnd(t, i))
            IN  IF p > i
                THEN <<SubSeq(t, start, i - 1)>> \o SplitFrom(t, p + 1, p + 1)
                ELSE SplitFrom(t, start, i + 1)
       ELSE SplitFrom(t, start, i + 1)

\* re.split(r'\n\s*\n', text)
SplitParagraphs(text) == SplitFrom(text, 1, 1)

RECURSIVE SentFrom(_, _, _)
SentFrom(t, start, i) ==
  IF i > Len(t)
  THEN IF start > Len(t) THEN <<>> ELSE <<SubSeq(t, start, Len(t))>>
  ELSE IF t[i] = "." /\ i < Len(t) /\ IsSpace(t[i + 1])
       THEN LET e == WsRunEnd(t, i + 1)
            IN  <<SubSeq(t, start, i)>> \o SentFrom(t, e + 1, e + 1)
       ELSE SentFrom(t, start, i + 1)

\* the punkt sentence tokenizer: a sentence ends at a full stop followed by
\* whitespace, and the whitespace between sentences is dropped
SentenceTokenize(para) == SentFrom(para, 1, 1)

\* one iteration of the packing loop (chunker.py:73-78 and 80-85)
PackPiece(st, piece, metadata) ==
  LET flush == st.current_length + Len(piece) > ChunkSize /\ st.current_chunk # <<>>
      base  == IF flush
               THEN [chunks |-> Append(st.chunks, _create_chunk(st.current_chunk, metadata)),
                     current_chunk |-> <<>>, current_length |-> 0]
               ELSE st
  IN  [chunks |-> base.chunks,
       current_chunk |-> Append(base.current_chunk, piece),
       current_length |-> base.current_length + Len(piece)]

RECURSIVE PackPieces(_, _, _)
PackPieces(st, pieces, metadata) ==
  IF pieces = <<>> THEN st
  ELSE PackPieces(PackPiece(st, pieces[1], metadata), Tail(pieces), metadata)

RECURSIVE PackParagraphs(_, _, _)
\* the loop over paragraphs (chunker.py:64-85)
PackParagraphs(st, paragraphs, metadata) ==
  IF paragraphs = <<>> THEN st
  ELSE LET para == Strip(paragraphs[1])
           st2  == IF para = <<>> THEN st
                   ELSE IF 2 * Len(para) > 3 * ChunkSize
                        THEN PackPieces(st, SentenceTokenize(para), metadata)
                        ELSE PackPiece(st, para, metadata)
       IN  PackParagraphs(st2, Tail(paragraphs), metadata)

\* the overlap pass taking the head of the previous chunk
_add_overlapping_chunks_Head(chunks) ==
  IF Len(chunks) <= 1 THEN chunks
  ELSE [i \in 1..Len(chunks) |->
          IF i = 1 THEN chunks[1]
          ELSE LET prev_text     == chunks[i - 1].text
                   overlap_text  == Take(prev_text, ChunkOverlap)
               IN  [text |-> overlap_text \o <<NL, NL>> \o chunks[i].text,
                    metadata |-> chunks[i].metadata,
                    chunk_id |-> _generate_chunk_id(chunks[i].text, chunks[i].metadata)]]

\* SemanticChunker._add_overlapping_chunks
_add_overlapping_chunks(chunks) ==
  IF Len(chunks) <= 1 THEN chunks
  ELSE [i \in 1..Len(chunks) |->
          IF i = 1 THEN chunks[1]
          ELSE LET prev_text     == chunks[i - 1].text
                   overlap_start == Max2(0, Len(prev_text) - ChunkOverlap)
                   overlap_text  == SliceFrom(prev_text, overlap_start)
               IN  [text |-> overlap_text \o <<NL, NL>> \o chunks[i].text,
                    metadata |-> chunks[i].metadata,
                    chunk_id |-> _generate_chunk_id(chunks[i].text, chunks[i].metadata)]]

\* the chunks of chunk_document before its overlap pass (chunker.py:59-89)
_base_chunks(text, metadata) ==
  LET st0    == [chunks |-> <<>>, current_chunk |-> <<>>, current_length |-> 0]
      st     == PackParagraphs(st0, SplitParagraphs(text), metadata)
  IN  IF st.current_chunk # <<>>
      THEN Append(st.chunks, _create_chunk(st.current_chunk, metadata))
      ELSE st.chunks

\* SemanticChunker.chunk_document
chunk_document(text, metadata) ==
  LET chunks == _base_chunks(text, metadata)
  IN  IF ChunkOverlap > 0 /\ Len(chunks) > 1
      THEN _add_overlapping_chunks(chunks)
      ELSE chunks

----------------------------------------------------------------------------
(* models/embeddings.py: the embedding provider, an opaque deterministic    *)
(* map from text to a vector.  Vectors are points on a line, in tenths.     *)

Code(c) ==
  CASE c = "a" -> 1 [] c = "b" -> 2 [] c = "c" -> 3 [] c = "d" -> 4
    [] c = "." -> 5 [] c = " " -> 6 [] OTHER -> 7

RECURSIVE CodeSum(_, _)
CodeSum(text, i) ==
  IF i > Len(text) THEN 0 ELSE Code(text[i]) * (i + 2) + CodeSum(text, i + 1)

\* EmbeddingModel.embed_query
embed_query(text) == CodeSum(text, 1) % 21

\* EmbeddingModel.embed_documents
embed_documents(texts) == [i \in 1..Len(texts) |-> embed_query(texts[i])]

\* squared L2 distance of IndexFlatL2, in thousandths
L2(a, b) == 10 * (a - b) * (a - b)

----------------------------------------------------------------------------
(* ingestion/index_builder.py: DocumentIndex *)

\* self.index = None
IndexNone == [built |-> FALSE, vecs |-> <<>>]

\* DocumentIndex.__init__
NewDocumentIndex ==
  [index |-> IndexNone, documents |-> <<>>, chunks |-> <<>>, chunk_to_doc |-> <<>>]

\* the owner taken after the document was appended: len(self.documents)
OwnerOf_AfterAppend(doc_id) == doc_id + 1

\* the value appended to chunk_to_doc for each chunk (index_builder.py:65)
OwnerOf(doc_id) == doc_id

\* DocumentIndex.add_document: the new index and the returned doc_id
add_document(ix, content, metadata) ==
  LET doc_id == Len(ix.documents)
      chunks == chunk_document(content, metadata)
  IN  [ix |-> [ix EXCEPT !.documents = Append(@, metadata),
                         !.chunks = @ \o chunks,
                         !.chunk_to_doc = @ \o [i \in 1..Len(chunks) |-> OwnerOf(doc_id)]],
       doc_id |-> doc_id]

\* index.add(embeddings) on the index build_index holds (index_builder.py:108-113)
FaissAdd(index, embeddings) ==
  [built |-> TRUE, vecs |-> (IF index.built THEN index.vecs ELSE <<>>) \o embeddings]

\* DocumentIndex.build_index; embedOk = FALSE is a failure of the embedding model
build_index(ix, embedOk) ==
  IF ix.chunks = <<>> THEN [ix |-> ix, raised |-> "none"]
  ELSE IF ~embedOk THEN [ix |-> ix, raised |-> "EmbeddingError"]
  ELSE LET texts      == [i \in 1..Len(ix.chunks) |-> ix.chunks[i].text]
           embeddings == embed_documents(texts)
       IN  [ix |-> [ix EXCEPT !.index = FaissAdd(ix.index, embeddings)],
            raised |-> "none"]

\* faiss IndexFlatL2.search(query_vector, k): the admissible id rows.  The k
\* nearest stored vectors by ascending distance (ties in any order), padded
\* with -1 when fewer than k vectors are stored.  Ids are 0-based.
FaissSearch(vecs, qv, k) ==
  LET n == Len(vecs)
      m == Min2(k, n)
      d(id) == L2(vecs[id + 1], qv)
      rows == {r \in [1..m -> 0..(n - 1)] :
                 /\ \A i, j \in 1..m : i # j => r[i] # r[j]
                 /\ \A i \in 1..m : \A j \in 1..m : i < j => d(r[i]) <= d(r[j])
                 /\ \A id \in 0..(n - 1) :
                      (\A i \in 1..m : r[i] # id) => \A i \in 1..m : d(r[i]) <= d(id)}
  IN  {[i \in 1..k |-> IF i <= m THEN [idx |-> r[i], dist |-> d(r[i])]
                       ELSE [idx |-> -1, dist |-> 0]] : r \in rows}

\* the guard without its test of self.index
SearchUnready_NoNoneCheck(ix) == ix.chunks = <<>>

\* the guard of search (index_builder.py:127)
SearchUnready(ix) == ~ix.index.built \/ ix.chunks = <<>>

\* the positions search maps to chunks (index_builder.py:140)
ValidHit(h) == h.idx >= 0

RECURSIVE MapHits(_, _)
\* the result loop of search (index_builder.py:139-151)
MapHits(ix, hits) ==
  IF hits = <<>> THEN [raised |-> "none", results |-> <<>>]
  ELSE LET h == hits[1]
       IN  IF ~ValidHit(h) THEN MapHits(ix, Tail(hits))
           ELSE IF h.idx + 1 \notin DOMAIN ix.chunks
                   \/ h.idx + 1 \notin DOMAIN ix.chunk_to_doc
                   \/ ix.chunk_to_doc[h.idx + 1] + 1 \notin DOMAIN ix.documents
                THEN [raised |-> "IndexError", results |-> <<>>]
                ELSE LET rest == MapHits(ix, Tail(hits))
                         res  == [score |-> h.dist,
                                  content |-> ix.chunks[h.idx + 1].text,
                                  metadata |-> ix.chunks[h.idx + 1].metadata,
                                  document |-> ix.documents[ix.chunk_to_doc[h.idx + 1] + 1]]
                     IN  IF rest.raised # "none" THEN rest
                         ELSE [raised |-> "none", results |-> <<res>> \o rest.results]

\* DocumentIndex.search up to the vector search (index_builder.py:127-135):
\* the guard, the query embedding and the faiss rows
SearchProbe(ix, query, k, embedOk) ==
  IF SearchUnready(ix) THEN {[raised |-> "none", hits |-> <<>>]}
  ELSE IF ~embedOk THEN {[raised |-> "EmbeddingError", hits |-> <<>>]}
  ELSE IF ~ix.index.built THEN {[raised |-> "AttributeError", hits |-> <<>>]}
  ELSE {[raised |-> "none", hits |-> hits] :
          hits \in FaissSearch(ix.index.vecs, embed_query(query), k)}

\* DocumentIndex.search: the set of outcomes (one per admissible faiss row)
search(ix, query, k, embedOk) ==
  {IF p.raised # "none" THEN [raised |-> p.raised, results |-> <<>>]
   ELSE MapHits(ix, p.hits) : p \in SearchProbe(ix, query, k, embedOk)}

----------------------------------------------------------------------------
(* Inputs *)

Doc(content, metadata) == [content |-> content, metadata |-> metadata]

\* the documents add_document is called with
SampleDocs ==
  { Doc(<<"a", "b">>, [source |-> "kb1", topic |-> "waste"]),
    Doc(<<"a", "b", NL, NL, "c", "d">>, [source |-> "kb2", topic |-> "water"]),
    Doc(<<" ", NL>>, [title |-> "untitled"]),
    Doc(<<"a", ".", " ", "b", ".", " ", "c">>, [source |-> "kb1", topic |-> "waste"]) }

SampleQueries == { <<"a">>, <<"C", " ", "d", "?">> }

\* the files under INDEX_DIR before anything was saved
NoDisk ==
  [faiss |-> [present |-> FALSE, vecs |-> <<>>],
   sidecar |-> [state |-> "absent", documents |-> <<>>, chunks |-> <<>>,
                chunk_to_doc |-> <<>>]]

NoResponse == [answer |-> <<>>, citations |-> <<>>, context |-> <<>>, sources |-> {}]

NoWeb == [raised |-> FALSE, found |-> FALSE, title |-> <<>>, snippet |-> <<>>, link |-> ""]

\* no request is running
AskIdle ==
  [pc |-> "idle", question |-> <<>>, top_k |-> 0, context |-> <<>>,
   response |-> NoResponse, confidence |-> 0, web |-> NoWeb,
   retrieved |-> FALSE, generated |-> FALSE, gated |-> FALSE, webIssued |-> FALSE,
   webRaised |-> "none",
   status |-> "none", exc |-> "none", out |-> NoResponse]

\* no reindex request is running
RxIdle == [pc |-> "idle", new_index |-> 0, cursor |-> 0, indexed_docs |-> 0, status |-> 0]

NoObs == [index |-> IndexNone, guardChunks |-> <<>>, mapped |-> FALSE,
          chunks |-> <<>>, documents |-> <<>>, chunk_to_doc |-> <<>>]

\* no search request is running
SrIdle ==
  [pc |-> "idle", query |-> <<>>, top_k |-> 0, ref |-> 0, raised |-> "none",
   hits |-> <<>>, results |-> <<>>, status |-> 0, obs |-> NoObs, during |-> FALSE,
   endpoint |-> ""]

\* database sessions that may be open at once
MaxSessions == 2

Sessions == 1..MaxSessions

\* the API routers, each with its own get_rag_pipeline singleton
Routers == {"retrieval", "generation", "chat"}

\* a database without incidents
EmptyDb == [incidents |-> <<>>, conversations |-> {}, messages |-> EmptyBag]

\* a session that runs no call
ReqIdle ==
  [pc |-> "idle", op |-> "none", incident_id |-> <<>>, status |-> "none",
   result |-> "none", calls |-> 0, session_id |-> "",
   response |-> [reply |-> "", citations |-> <<>>, confidence |-> 0,
                 session_id |-> "", requires_clarification |-> FALSE,
                 clarification_question |-> ""],
   failed |-> FALSE]

\* the application layer at rest: no router has built its pipeline yet
AppAtRest ==
  /\ req = [s \in Sessions |-> ReqIdle]
  /\ routers = [r \in Routers |-> 0]

ReindexAtRest ==
  /\ kb = <<>>
  /\ rx = RxIdle
  /\ sr = SrIdle
  /\ published = {}

\* the retrieval layer and the request sessions at rest
PipelineAtRest ==
  /\ ReindexAtRest
  /\ AppAtRest
  /\ heap = <<NewDocumentIndex>>
  /\ pipelineIndex = 1
  /\ cfg = [generator |-> "none", searchKey |-> FALSE]
  /\ disk = NoDisk
  /\ ask = AskIdle
  /\ answers = {}
  /\ webAnswered = {}

\* the variables of the serving layer at rest, over a database without incidents
ServeAtRest ==
  /\ PipelineAtRest
  /\ db = EmptyDb

----------------------------------------------------------------------------
(* SpecIndex: one DocumentIndex driven through its public operations *)

NoOp ==
  [op |-> "init", raised |-> "none", doc_id |-> -1, query |-> <<>>, k |-> 0,
   results |-> <<>>, pre |-> NewDocumentIndex,
   prev |-> [op |-> "init", raised |-> "none"]]

\* the operation before the one being recorded
PrevOp == [op |-> last.op, raised |-> last.raised]

InitIndex ==
  /\ ServeAtRest
  /\ dix = NewDocumentIndex
  /\ last = NoOp
  /\ producedBy = <<>>

AddDocument ==
  \E doc \in SampleDocs :
    /\ Len(dix.documents) < MaxDocs
    /\ LET r == add_document(dix, doc.content, doc.metadata)
       IN  /\ dix' = r.ix
           /\ last' = [NoOp EXCEPT !.op = "add_document", !.doc_id = r.doc_id, !.pre = dix,
                                   !.prev = PrevOp]
           /\ producedBy' = producedBy \o
                [i \in 1..(Len(r.ix.chunks) - Len(dix.chunks)) |-> r.doc_id]
    /\ UNCHANGED <<appVars, pipeVars, queryVars, reindexVars>>

BuildIndex ==
  \E embedOk \in BOOLEAN :
    /\ Len(dix.index.vecs) + Len(dix.chunks) <= MaxVectors
    /\ LET r == build_index(dix, embedOk)
       IN  /\ dix' = r.ix
           /\ last' = [NoOp EXCEPT !.op = "build_index", !.raised = r.raised, !.pre = dix,
                                   !.prev = PrevOp]
    /\ UNCHANGED <<appVars, producedBy, pipeVars, queryVars, reindexVars>>

Search ==
  \E query \in SampleQueries, k \in 1..MaxK, embedOk \in BOOLEAN :
    \E r \in search(dix, query, k, embedOk) :
      /\ last' = [NoOp EXCEPT !.op = "search", !.raised = r.raised, !.query = query,
                              !.k = k, !.results = r.results, !.pre = dix,
                              !.prev = PrevOp]
      /\ UNCHANGED <<appVars, dix, producedBy, pipeVars, queryVars, reindexVars>>

NextIndex == AddDocument \/ BuildIndex \/ Search

SpecIndex == InitIndex /\ [][NextIndex]_vars

----------------------------------------------------------------------------
(* Properties of DocumentIndex, checked under SpecIndex *)

ChunkTexts(ix) == [i \in 1..Len(ix.chunks) |-> ix.chunks[i].text]

\* C2: after every build_index that completes on an index with at least one
\* chunk, the vector index holds exactly one vector per chunk: vector i is the
\* embedding of chunk i, so the vector count is len(chunks) = len(chunk_to_doc).
C2_OneVectorPerChunk ==
  (last.op = "build_index" /\ last.raised = "none" /\ dix.chunks # <<>>)
    => /\ dix.index.built
       /\ Len(dix.index.vecs) = Len(dix.chunks)
       /\ Len(dix.index.vecs) = Len(dix.chunk_to_doc)
       /\ dix.index.vecs = embed_documents(ChunkTexts(dix))

\* C3: after any sequence of add_document calls chunk_to_doc is as long as
\* chunks, every entry is the id of an existing document, namely the id the
\* add_document call that produced the chunk returned, and the chunk carries
\* that document's metadata.
C3_ChunkToDocTotal ==
  /\ Len(dix.chunk_to_doc) = Len(dix.chunks)
  /\ dix.chunk_to_doc = producedBy
  /\ \A i \in DOMAIN dix.chunk_to_doc :
       /\ dix.chunk_to_doc[i] >= 0
       /\ dix.chunk_to_doc[i] < Len(dix.documents)
       /\ dix.chunks[i].metadata = dix.documents[dix.chunk_to_doc[i] + 1]

\* two documents added, the second one split into several chunks
C3_Witness ==
  /\ last.op = "add_document"
  /\ last.doc_id = 1
  /\ Len(dix.chunks) >= 3
  /\ dix.chunk_to_doc[Len(dix.chunks)] = 1

\* a search result is the text and metadata of an existing chunk together
\* with its owning document
IsChunkOf(ix, res) ==
  \E i \in DOMAIN ix.chunks :
    /\ i \in DOMAIN ix.chunk_to_doc
    /\ ix.chunk_to_doc[i] + 1 \in DOMAIN ix.documents
    /\ res.content = ix.chunks[i].text
    /\ res.metadata = ix.chunks[i].metadata
    /\ res.document = ix.documents[ix.chunk_to_doc[i] + 1]

\* C4: after any add_document / build_index sequence, search(query, k) returns
\* at most k results, each an existing chunk with its owning document, and
\* never reads a position outside chunks or chunk_to_doc.
C4_SearchInBounds ==
  last.op = "search"
    => /\ last.raised # "IndexError"
       /\ Len(last.results) <= last.k
       /\ \A i \in DOMAIN last.results : IsChunkOf(dix, last.results[i])

\* C5: on an index whose vector index was never built, build_index with zero
\* chunks raises nothing and leaves the index unbuilt, and search returns the
\* empty list without raising.
C5_UnbuiltIndexSafe ==
  /\ (last.op = "build_index" /\ ~last.pre.index.built /\ last.pre.chunks = <<>>)
       => (last.raised = "none" /\ ~dix.index.built)
  /\ (last.op = "search" /\ ~last.pre.index.built)
       => (last.raised = "none" /\ last.results = <<>>)

\* a document without text was added, build_index found no chunks and
\* returned, and the search that followed found the index unbuilt
C5_Witness ==
  /\ last.op = "search"
  /\ last.prev.op = "build_index"
  /\ last.prev.raised = "none"
  /\ dix.documents # <<>>
  /\ ~dix.index.built
  /\ last.results = <<>>

\* the positions a search of ix can return
HitPositions(ix, query, k) ==
  IF SearchUnready(ix) THEN {}
  ELSE {hits[i].idx : i \in 1..k, hits \in FaissSearch(ix.index.vecs, embed_query(query), k)}
         \ {-1}

\* C6: add_document on a built index leaves the vector index unchanged: the
\* added document's chunks are not returned by search until the next
\* build_index, and every search returns what it returned before the call.
C6_AddDocumentInvisible ==
  [][(last'.op = "add_document" /\ dix.index.built)
       => /\ dix'.index = dix.index
          /\ \A query \in SampleQueries, k \in 1..MaxK :
               /\ search(dix', query, k, TRUE) = search(dix, query, k, TRUE)
               /\ \A p \in HitPositions(dix', query, k) : p < Len(dix.chunks)]_vars

----------------------------------------------------------------------------
(* models/reranker.py: Reranker.rerank_with_hybrid_scores *)

\* alpha = 0.5 (pipeline.py:349), in thousandths
Alpha == 500

\* scores the cross-encoder may give a (query, passage) pair
CrossScores == {-2, 0, 3}

SeqMin(xs) == CHOOSE x \in {xs[i] : i \in DOMAIN xs} : \A i \in DOMAIN xs : x <= xs[i]
SeqMax(xs) == CHOOSE x \in {xs[i] : i \in DOMAIN xs} : \A i \in DOMAIN xs : x >= xs[i]

\* alpha * normalize(first)[i] + (1 - alpha) * normalize(cross)[i] with
\* normalize(x) = (x - min) / (max - min + 1e-9)  (reranker.py:138-146).
\* The epsilon puts every non-zero term just under its exact value, so the
\* result is the largest thousandth strictly below the exact blend.
CombinedScore(first, cross, i) ==
  LET fr  == SeqMax(first) - SeqMin(first)
      cr  == SeqMax(cross) - SeqMin(cross)
      a   == first[i] - SeqMin(first)
      b   == cross[i] - SeqMin(cross)
      fr1 == IF fr = 0 THEN 1 ELSE fr
      cr1 == IF cr = 0 THEN 1 ELSE cr
      num == Alpha * a * cr1 + (1000 - Alpha) * b * fr1
      den == fr1 * cr1
  IN  IF num = 0 THEN 0 ELSE ((num + den - 1) \div den) - 1

RECURSIVE InsertDesc(_, _)
\* insert d behind every entry whose score is at least d.score
InsertDesc(sorted, d) ==
  IF sorted = <<>> THEN <<d>>
  ELSE IF sorted[1].score >= d.score
       THEN <<sorted[1]>> \o InsertDesc(Tail(sorted), d)
       ELSE <<d>> \o sorted

RECURSIVE SortedDesc(_)
\* sorted(documents, key=score, reverse=True): stable, descending
SortedDesc(docs) ==
  IF docs = <<>> THEN <<>>
  ELSE InsertDesc(SortedDesc(SubSeq(docs, 1, Len(docs) - 1)), docs[Len(docs)])

\* the list with nothing dropped
FilterScore_KeepAll(docs, threshold) == docs

\* Python's [d for d in docs if d.score >= threshold]
FilterScore(docs, threshold) == SelectSeq(docs, LAMBDA d : d.score >= threshold)

\* the whole input handed back
ScorerFailureResult_All(documents, top_k) == documents

\* what the except branches return (reranker.py:101 and 163)
ScorerFailureResult(documents, top_k) == Take(documents, top_k)

\* Reranker.rerank; scores = <<>> is a failure of the scorer.  A score of the
\* cross-encoder becomes the document's score (float(score)), in thousandths
rerank(documents, scores, top_k, score_threshold) ==
  IF documents = <<>> THEN <<>>
  ELSE IF scores = <<>> THEN ScorerFailureResult(documents, top_k)
  ELSE LET rescored == [i \in DOMAIN documents |->
                          [documents[i] EXCEPT !.score = 1000 * scores[i]]]
       IN  Take(FilterScore(SortedDesc(rescored), score_threshold), top_k)

\* Reranker.rerank_with_hybrid_scores; cross = <<>> is a failure of the scorer
rerank_with_hybrid_scores(documents, cross, top_k, score_threshold) ==
  IF documents = <<>> THEN <<>>
  ELSE IF cross = <<>> THEN ScorerFailureResult(documents, top_k)
  ELSE LET first    == [i \in DOMAIN documents |-> documents[i].score]
           rescored == [i \in DOMAIN documents |->
                          [documents[i] EXCEPT !.score = CombinedScore(first, cross, i)]]
       IN  Take(FilterScore(SortedDesc(rescored), score_threshold), top_k)

----------------------------------------------------------------------------
(* models/generation/gemini_client.py and utils/web_search.py *)

GenModes == {"text", "blank", "apology"}

GenApology == <<"I'm sorry, I couldn't generate a response at the moment.">>
GenUnable == <<"I'm unable to access the fallback LLM right now.">>

\* the text the model produces for a prompt: opaque, determined by the prompt
GeminiText(prompt) == <<"gemini:">> \o prompt

\* GeminiClient.available; generator is "none" (no client), "unavailable"
\* (a client without a model) or "available"
GeneratorAvailable(generator) == generator = "available"

\* GeminiClient.generate: never raises
generate(generator, prompt, mode) ==
  IF generator # "available" THEN GenUnable
  ELSE CASE mode = "text"  -> GeminiText(prompt)
         [] mode = "blank" -> <<" ">>
         [] OTHER          -> GenApology

\* SerpAPIClient.search: what the backend may do for one request
WebOutcomes ==
  { [raised |-> TRUE,  found |-> FALSE, title |-> <<>>, snippet |-> <<>>, link |-> ""],
    [raised |-> FALSE, found |-> FALSE, title |-> <<>>, snippet |-> <<>>, link |-> ""],
    [raised |-> FALSE, found |-> TRUE,  title |-> <<"t">>, snippet |-> <<"s">>, link |-> ""],
    [raised |-> FALSE, found |-> TRUE,  title |-> <<"t">>, snippet |-> <<"s">>, link |-> "http://w"],
    [raised |-> FALSE, found |-> TRUE,  title |-> <<"t">>, snippet |-> <<>>, link |-> "http://w"] }

\* what requests.get(..., timeout=20) and raise_for_status may raise
\* (web_search.py:21-22)
WebErrors == {"Timeout", "ConnectionError", "HTTPError"}

\* web = None
WebNone == NoWeb

\* a handler for HTTP status errors only
WebSearchCatches_OnlyHTTP(exc) == exc = "HTTPError"

\* `except Exception` around the web search (pipeline.py:259): every error of
\* the backend is an Exception
WebSearchCatches(exc) == exc \in WebErrors \cup {"Exception"}

\* `web and web.get('link')` (pipeline.py:262)
WebUsable(web) == web.found /\ web.link # ""

----------------------------------------------------------------------------
(* rag/pipeline.py: RAGPipeline *)

\* confidence_threshold = 0.7 (pipeline.py:65) and score_threshold = 0.5
\* (pipeline.py:324), in thousandths
ConfidenceThreshold == 700
ScoreThreshold == 500

\* RAGPipeline.retrieve after the index search: rerank and format
RetrieveFormat(results, cross, top_k, score_threshold) ==
  LET ranked == IF Len(results) > 1
                THEN rerank_with_hybrid_scores(results, cross, top_k, score_threshold)
                ELSE results
      top    == Take(ranked, top_k)
  IN  [i \in DOMAIN top |->
         [content |-> top[i].content, score |-> top[i].score,
          metadata |-> top[i].metadata,
          source |-> Get(top[i].metadata, "source", "unknown")]]

\* the cross-encoder's possible answers for n pairs; <<>> is its failure
CrossChoices(n) == IF n > 1 THEN [1..n -> CrossScores] \cup {<<>>} ELSE {<<>>}

\* RAGPipeline.retrieve on the index ix: the set of outcomes
retrieve(ix, query, top_k, score_threshold, embedOk) ==
  UNION { IF s.raised # "none" THEN {[raised |-> s.raised, results |-> <<>>]}
          ELSE IF s.results = <<>> THEN {[raised |-> "none", results |-> <<>>]}
          ELSE {[raised |-> "none",
                 results |-> RetrieveFormat(s.results, cross, top_k, score_threshold)] :
                  cross \in CrossChoices(Len(s.results))}
        : s \in search(ix, query, 2 * top_k, embedOk) }

\* a clamp that wraps to 0 above 1.0
Clamp01_Wrap(x) == IF x > 1000 THEN 0 ELSE Max2(0, x)

\* min(1.0, max(0.0, x)) (pipeline.py:169)
Clamp01(x) == Min2(1000, Max2(0, x))

\* the affine map without the clamp
_calculate_confidence_NoClamp(documents) ==
  IF documents = <<>> THEN 0
  ELSE (documents[1].score - 500) * 2

\* RAGPipeline._calculate_confidence
_calculate_confidence(documents) ==
  IF documents = <<>> THEN 0
  ELSE Clamp01((documents[1].score - 500) * 2)

\* the truthy topic tags of documents[:3] (pipeline.py:191)
TopicsOf(documents) ==
  {documents[i].metadata.topic :
     i \in {j \in 1..Min2(3, Len(documents)) :
              /\ "topic" \in DOMAIN documents[j].metadata
              /\ documents[j].metadata.topic # ""}}

GenericClarification ==
  <<"I'm not entirely sure what you're asking. Could you provide more details?">>

\* the question naming topics[:2]; names is a sequence of one or two topics
TopicClarification(names) ==
  <<"I found information on multiple topics. Are you asking about">>
    \o Join([i \in DOMAIN names |-> <<names[i]>>], <<", ">>)
    \o <<", or something else?">>

\* list(set(...))[:2]: the set is listed in an order of the runtime's choosing
TopicLists(topics) ==
  IF Cardinality(topics) = 1 THEN {<<t>> : t \in topics}
  ELSE {<<t, u>> : t \in topics, u \in topics} \ {<<t, t>> : t \in topics}

\* RAGPipeline._needs_clarification: the outcomes it may return
_needs_clarification(documents, confidence) ==
  IF 2 * confidence < ConfidenceThreshold
  THEN {[needs_clarification |-> TRUE, clarification_question |-> GenericClarification]}
  ELSE IF /\ Len(documents) > 1
          /\ documents[1].score - documents[2].score < 100
          /\ TopicsOf(documents) # {}
  THEN {[needs_clarification |-> TRUE,
         clarification_question |-> TopicClarification(names)] :
          names \in TopicLists(TopicsOf(documents))}
  ELSE {[needs_clarification |-> FALSE, clarification_question |-> <<>>]}

RECURSIVE FormatDocs(_, _)
FormatDocs(context, i) ==
  IF i > Len(context) THEN <<>>
  ELSE <<"--- Document", ToString(i), "---">> \o context[i].content
         \o FormatDocs(context, i + 1)

\* RAGPipeline._format_prompt
_format_prompt(query, context) ==
  <<"Answer the question based on the provided context.", "Context:">>
    \o FormatDocs(context, 1) \o <<"Question:">> \o query \o <<"Answer:">>

RECURSIVE CollapseWs(_)
\* ' '.join(txt.split()) on a stripped text
CollapseWs(t) ==
  IF t = <<>> THEN <<>>
  ELSE IF IsSpace(t[1]) THEN <<" ">> \o CollapseWs(LStrip(t))
  ELSE <<t[1]>> \o CollapseWs(Tail(t))

NotFoundAnswer == <<"I couldn't find any relevant information to answer your question.">>

\* RAGPipeline._generate_simple_response
_generate_simple_response(context) ==
  IF context = <<>> THEN NotFoundAnswer
  ELSE LET txt     == CollapseWs(Strip(context[1].content))
           snippet == RStrip(Take(txt, 240))
       IN  <<"Here's a concise summary based on the knowledge base:">> \o snippet
             \o (IF Len(txt) > 240 THEN <<"...">> ELSE <<>>)

RECURSIVE CiteFrom(_, _)
\* the citation loop without seen_sources
CiteFrom_NoSeen(docs, seen) ==
  IF docs = <<>> THEN <<>>
  ELSE LET source == docs[1].source
       IN  IF source = "" THEN CiteFrom(Tail(docs), seen)
           ELSE <<[title |-> <<>>,
                   snippet |-> Take(docs[1].content, 200) \o <<"...">>,
                   source_link |-> source,
                   page |-> Get(docs[1].metadata, "page", "None")]>>
                  \o CiteFrom(Tail(docs), seen)

\* the loop of _format_citations (pipeline.py:202-213)
CiteFrom(docs, seen) ==
  IF docs = <<>> THEN <<>>
  ELSE LET source == docs[1].source
       IN  IF source = "" \/ source \in seen THEN CiteFrom(Tail(docs), seen)
           ELSE <<[title |-> <<>>,
                   snippet |-> Take(docs[1].content, 200) \o <<"...">>,
                   source_link |-> source,
                   page |-> Get(docs[1].metadata, "page", "None")]>>
                  \o CiteFrom(Tail(docs), seen \cup {source})

\* RAGPipeline._format_citations
_format_citations(documents) == CiteFrom(Take(documents, 3), {})

\* RAGPipeline.generate_response
generate_response(generator, query, context, mode) ==
  LET top_context == Take(context, 3)
      prompt      == <<"Based ONLY on the context, answer in 1-3 sentences.">>
                       \o _format_prompt(query, top_context) \o <<"Answer:">>
      llm         == Strip(generate(generator, prompt, mode))
      answer      == IF generator # "none" /\ GeneratorAvailable(generator)
                     THEN IF llm = <<>> THEN _generate_simple_response(top_context) ELSE llm
                     ELSE _generate_simple_response(top_context)
  IN  [answer |-> Strip(answer),
       citations |-> _format_citations(top_context),
       context |-> <<>>,
       sources |-> {top_context[i].source : i \in DOMAIN top_context}]

\* the condition without the call of generator.available()
FallbackGate_NoAvailable(context, confidence, generator) ==
  /\ (context = <<>> \/ confidence < ConfidenceThreshold)
  /\ generator # "none"

\* the condition of the fallback branch (pipeline.py:254)
FallbackGate(context, confidence, generator) ==
  /\ (context = <<>> \/ confidence < ConfidenceThreshold)
  /\ generator # "none"
  /\ GeneratorAvailable(generator)

\* the summary of a web result (pipeline.py:264-272)
WebAnswerText(generator, web, mode) ==
  LET summary_prompt == <<"Based on the following search snippet, answer.", "Snippet:">>
                          \o web.snippet \o <<"Respond in 1-3 sentences.">>
      answer_text    == generate(generator, summary_prompt, mode)
  IN  IF Strip(answer_text) = <<>>
      THEN IF web.snippet # <<>> THEN web.snippet
           ELSE <<"I'm sorry, I couldn't find a definitive answer right now.">>
      ELSE answer_text

\* the response of the web branch (pipeline.py:301-306)
WebResponse(answer_text, web) ==
  [answer |-> answer_text,
   citations |-> <<[title |-> web.title, snippet |-> web.snippet, source_link |-> web.link]>>,
   context |-> <<>>,
   sources |-> {"web"}]

\* the no-web-result response carrying the tag of the web branch
FallbackResponse_WebTag(generator, question, mode) ==
  [answer |-> generate(generator, question, mode),
   citations |-> <<>>,
   context |-> <<>>,
   sources |-> {"web"}]

\* the response of the no-web-result branch (pipeline.py:307-315)
FallbackResponse(generator, question, mode) ==
  [answer |-> generate(generator, question, mode),
   citations |-> <<>>,
   context |-> <<>>,
   sources |-> {"gemini"}]

----------------------------------------------------------------------------
(* utils/text.py and the persistence of a web answer *)

SlugLower(c) == CASE c = "A" -> "a" [] c = "B" -> "b" [] c = "C" -> "c"
                  [] c = "D" -> "d" [] OTHER -> c

SlugKeep(c) == c \in {"a", "b", "c", "d", "-", " ", NL}

RECURSIVE DashRuns(_)
\* re.sub(r"\s+", "-", text)
DashRuns(t) ==
  IF t = <<>> THEN <<>>
  ELSE IF IsSpace(t[1]) THEN <<"-">> \o DashRuns(LStrip(t))
  ELSE <<t[1]>> \o DashRuns(Tail(t))

RECURSIVE StripDash(_)
\* str.strip("-")
StripDash(t) ==
  IF t # <<>> /\ t[1] = "-" THEN StripDash(Tail(t))
  ELSE IF t # <<>> /\ t[Len(t)] = "-" THEN StripDash(SubSeq(t, 1, Len(t) - 1))
  ELSE t

\* slugify(text, max_length=80)
slugify(text) ==
  LET lowered == [i \in DOMAIN text |-> SlugLower(text[i])]
      kept    == SelectSeq(lowered, SlugKeep)
      slug    == Take(StripDash(DashRuns(kept)), 80)
  IN  IF slug = <<>> THEN <<"entry">> ELSE slug

\* DocumentIndex.save: the files afterwards and whether it raised.  The vector
\* file is written when an index exists, the sidecar is opened for writing and
\* its content is built from chunk.to_dict(), which TextChunk does not define.
save(ix, dsk) ==
  LET faissFile == IF ix.index.built THEN [present |-> TRUE, vecs |-> ix.index.vecs]
                   ELSE dsk.faiss
  IN  IF ix.chunks # <<>>
      THEN [disk |-> [faiss |-> faissFile,
                      sidecar |-> [state |-> "truncated", documents |-> <<>>,
                                   chunks |-> <<>>, chunk_to_doc |-> <<>>]],
            raised |-> "AttributeError"]
      ELSE [disk |-> [faiss |-> faissFile,
                      sidecar |-> [state |-> "written", documents |-> ix.documents,
                                   chunks |-> <<>>, chunk_to_doc |-> ix.chunk_to_doc]],
            raised |-> "none"]

\* self.index.add_document_and_index(content, metadata): DocumentIndex has no
\* such method, the call raises AttributeError and changes nothing
add_document_and_index(ix, content, metadata) == [ix |-> ix, raised |-> "AttributeError"]

\* the try block that persists a web answer (pipeline.py:275-299): the answer
\* file, then the index and the index files; an exception ends the block
PersistWebAnswer(ix, dsk, files, question, answer_text, web) ==
  LET filename == slugify(question) \o <<".md">>
      md       == <<"#">> \o question \o <<NL, NL>> \o answer_text
                    \o <<NL, NL, "Source:", web.link, NL, NL, "Date fetched:", "now", NL>>
      metadata == [source |-> web.link, type |-> "web_answer", question |-> question,
                   date_fetched |-> "now", title |-> web.title]
      written  == {f \in files : f.filename # filename}
                    \cup {[filename |-> filename, md |-> md]}
      added    == add_document_and_index(ix, md, metadata)
      saved    == save(added.ix, dsk)
  IN  IF added.raised # "none"
      THEN [ix |-> ix, disk |-> dsk, files |-> written]
      ELSE [ix |-> added.ix, disk |-> saved.disk, files |-> written]

----------------------------------------------------------------------------
(* SpecQuery: requests running RAGPipeline.query on one pipeline *)

RECURSIVE AddAll(_, _)
AddAll(ix, docs) ==
  IF docs = <<>> THEN ix
  ELSE AddAll(add_document(ix, docs[1].content, docs[1].metadata).ix, Tail(docs))

\* an index as the composition root hands it to the pipeline: the documents
\* added, then build_index once
BuiltFrom(docs) == build_index(AddAll(NewDocumentIndex, docs), TRUE).ix

SampleCorpora ==
  { <<>>,
    <<Doc(<<"a", "b">>, [source |-> "kb1", topic |-> "waste"])>>,
    <<Doc(<<"a", "b", NL, NL, "c", "d">>, [source |-> "kb1", topic |-> "waste"]),
      Doc(<<"a", ".", " ", "b", ".", " ", "c">>, [source |-> "kb2", topic |-> "water"])>>,
    <<Doc(<<"a">>, [source |-> "kb1", topic |-> "waste"]),
      Doc(<<"c", "d">>, [source |-> "kb2", topic |-> "water"])>> }

\* largest top_k of a request
MaxTopK == 2

PipelineIx == heap[pipelineIndex]

InitQuery ==
  /\ dix = NewDocumentIndex /\ last = NoOp /\ producedBy = <<>>
  /\ \E docs \in SampleCorpora : heap = <<BuiltFrom(docs)>>
  /\ pipelineIndex = 1
  /\ cfg \in [generator : {"none", "unavailable", "available"}, searchKey : BOOLEAN]
  /\ disk = NoDisk
  /\ ask = AskIdle
  /\ answers = {}
  /\ webAnswered = {}
  /\ ReindexAtRest
  /\ AppAtRest
  /\ db = EmptyDb

\* query is called
AskStart ==
  \E question \in SampleQueries, top_k \in 1..MaxTopK :
    /\ ask.pc = "idle"
    /\ ask' = [AskIdle EXCEPT !.pc = "retrieve", !.question = question, !.top_k = top_k]
    /\ UNCHANGED <<appVars, indexVars, pipeVars, answers, webAnswered, reindexVars>>

\* context = await self.retrieve(question, top_k=top_k)  (pipeline.py:238)
AskRetrieve ==
  /\ ask.pc = "retrieve"
  /\ \E embedOk \in BOOLEAN :
    \E r \in retrieve(PipelineIx, ask.question, ask.top_k, ScoreThreshold, embedOk) :
      /\ ask' = IF r.raised # "none"
                THEN [ask EXCEPT !.pc = "done", !.status = "raised", !.exc = r.raised]
                ELSE [ask EXCEPT !.pc = "generate", !.context = r.results,
                                 !.retrieved = TRUE]
      /\ UNCHANGED <<appVars, indexVars, pipeVars, answers, webAnswered, reindexVars>>

\* response = await self.generate_response(...)  (pipeline.py:241-246)
AskGenerate ==
  /\ ask.pc = "generate"
  /\ \E mode \in GenModes :
    /\ ask' = [ask EXCEPT !.pc = "gate", !.generated = TRUE,
                 !.response = generate_response(cfg.generator, ask.question, ask.context, mode)]
    /\ UNCHANGED <<appVars, indexVars, pipeVars, answers, webAnswered, reindexVars>>

\* the confidence and the test of the fallback branch (pipeline.py:249-254);
\* when it fails query returns the response (pipeline.py:317)
AskGate ==
  /\ ask.pc = "gate"
  /\ LET confidence == _calculate_confidence(ask.context)
     IN  ask' = IF FallbackGate(ask.context, confidence, cfg.generator)
                THEN [ask EXCEPT !.pc = "web", !.confidence = confidence, !.gated = TRUE]
                ELSE [ask EXCEPT !.pc = "done", !.confidence = confidence,
                                 !.status = "ok", !.out = ask.response]
  /\ UNCHANGED <<appVars, indexVars, pipeVars, answers, webAnswered, reindexVars>>

\* the live web search (pipeline.py:256-260): issued when the client has a
\* key; an exception of the backend leaves web = None
AskWebSearch ==
  /\ ask.pc = "web"
  /\ IF cfg.searchKey
     THEN \E w \in WebOutcomes, exc \in WebErrors :
            ask' = IF ~w.raised
                   THEN [ask EXCEPT !.pc = "answer", !.webIssued = TRUE, !.web = w]
                   ELSE IF WebSearchCatches(exc)
                   THEN [ask EXCEPT !.pc = "answer", !.webIssued = TRUE,
                                    !.webRaised = exc, !.web = WebNone]
                   ELSE [ask EXCEPT !.pc = "done", !.webIssued = TRUE,
                                    !.webRaised = exc, !.status = "raised", !.exc = exc]
     ELSE ask' = [ask EXCEPT !.pc = "answer", !.web = WebNone]
  /\ UNCHANGED <<appVars, indexVars, pipeVars, answers, webAnswered, reindexVars>>

\* a usable web result: summarise, persist, return (pipeline.py:262-306)
AskWebAnswer ==
  /\ ask.pc = "answer"
  /\ WebUsable(ask.web)
  /\ \E mode \in GenModes :
    /\ LET answer_text == WebAnswerText(cfg.generator, ask.web, mode)
           p == PersistWebAnswer(PipelineIx, disk, answers, ask.question, answer_text, ask.web)
       IN  /\ heap' = [heap EXCEPT ![pipelineIndex] = p.ix]
           /\ disk' = p.disk
           /\ answers' = p.files
           /\ ask' = [ask EXCEPT !.pc = "done", !.status = "ok",
                                 !.out = WebResponse(answer_text, ask.web)]
    /\ webAnswered' = webAnswered \cup {ask.question}
    /\ UNCHANGED <<appVars, indexVars, pipelineIndex, cfg, reindexVars>>

\* no usable web result: the answer of the generator alone (pipeline.py:307-315)
AskFallback ==
  /\ ask.pc = "answer"
  /\ ~WebUsable(ask.web)
  /\ \E mode \in GenModes :
    /\ ask' = [ask EXCEPT !.pc = "done", !.status = "ok",
                          !.out = FallbackResponse(cfg.generator, ask.question, mode)]
    /\ UNCHANGED <<appVars, indexVars, pipeVars, answers, webAnswered, reindexVars>>

\* the caller has its response (or the exception); the next request may come
AskFinish ==
  /\ ask.pc = "done"
  /\ ask' = AskIdle
  /\ UNCHANGED <<appVars, indexVars, pipeVars, answers, webAnswered, reindexVars>>

NextQuery ==
  \/ AskStart \/ AskRetrieve \/ AskGenerate \/ AskGate
  \/ AskWebSearch \/ AskWebAnswer \/ AskFallback \/ AskFinish

SpecQuery == InitQuery /\ [][NextQuery]_vars

----------------------------------------------------------------------------
(* Properties of RAGPipeline.query, checked under SpecQuery *)

\* C7: query returns a well-formed response for every input and never raises:
\* when a step throws, the caller still receives an apology answer with empty
\* citations and zero confidence.
C7_QueryAlwaysResponds ==
  ask.pc = "done"
    => /\ ask.status = "ok"
       /\ ask.exc # "none"
            => /\ ask.out.answer = GenApology
               /\ ask.out.citations = <<>>
               /\ "confidence" \in DOMAIN ask.out
               /\ ask.out.confidence = 0

\* C8: a web search is issued only after retrieval and grounded generation
\* have completed, and exactly when (the retrieved set is empty or the
\* confidence is below confidence_threshold) and the generation backend and
\* the web-search client are both available; when retrieval is non-empty with
\* confidence >= confidence_threshold, or no generation backend is configured
\* or available, query returns the response of the generation step unchanged.
C8_WebSearchGate ==
  LET conf == _calculate_confidence(ask.context)
      low  == ask.context = <<>> \/ conf < ConfidenceThreshold
  IN  /\ ask.webIssued => (ask.retrieved /\ ask.generated)
      /\ (ask.pc = "done" /\ ask.status = "ok")
           => /\ ask.webIssued <=> (low /\ cfg.generator = "available" /\ cfg.searchKey)
              /\ (~low \/ cfg.generator # "available")
                   => (ask.out = ask.response /\ ~ask.webIssued)

\* a web search issued for a non-empty retrieval of low confidence
C8_Witness ==
  /\ ask.pc = "done"
  /\ ask.webIssued
  /\ ask.context # <<>>
  /\ _calculate_confidence(ask.context) < ConfidenceThreshold

\* the chunk at position i of ix has a vector and is a web answer to question
IsWebEntry(ix, i, question) ==
  /\ ix.index.built
  /\ i <= Len(ix.index.vecs)
  /\ "type" \in DOMAIN ix.chunks[i].metadata
  /\ ix.chunks[i].metadata.type = "web_answer"
  /\ "question" \in DOMAIN ix.chunks[i].metadata
  /\ ix.chunks[i].metadata.question = question

\* C9: once query has answered a question from a usable web result, the
\* answer is a searchable entry of the pipeline's Document Index, and the
\* response carries exactly one citation and the source tag web.
C9_WebAnswerIndexed ==
  /\ \A question \in webAnswered :
       \E i \in DOMAIN PipelineIx.chunks : IsWebEntry(PipelineIx, i, question)
  /\ (ask.pc = "done" /\ ask.status = "ok" /\ WebUsable(ask.web))
       => (Len(ask.out.citations) = 1 /\ ask.out.sources = {"web"})

\* C10: when the fallback branch is taken and the web search yields nothing
\* (no result, or a result without a link), query returns what the generator
\* answers to the question alone, with empty citations and sources naming the
\* generation backend.
C10_NoWebResultFallback ==
  (ask.pc = "done" /\ ask.gated /\ ~WebUsable(ask.web))
    => /\ ask.status = "ok"
       /\ ask.out.answer \in {generate(cfg.generator, ask.question, mode) : mode \in GenModes}
       /\ ask.out.citations = <<>>
       /\ ask.out.context = <<>>
       /\ ask.out.sources = {"gemini"}

\* a web result without a link, answered by the generator from the question
C10_Witness ==
  /\ ask.pc = "done"
  /\ ask.gated
  /\ ask.webIssued
  /\ ask.web.found
  /\ ask.web.link = ""
  /\ ask.out.answer = GeminiText(ask.question)

\* C11: a timeout or transport error of the web-search backend does not escape
\* query: the request goes on with web = None, as it does when the client has
\* no key, takes the no-web-result branch and returns that branch's response.
C11_WebErrorIsNoResult ==
  ask.webRaised # "none"
    => /\ ask.status # "raised"
       /\ ask.exc = "none"
       /\ ask.web = WebNone
       /\ ask.pc \in {"answer", "done"}
       /\ ask.pc = "done"
            => /\ ask.status = "ok"
               /\ ask.out \in {FallbackResponse(cfg.generator, ask.question, mode) :
                                 mode \in GenModes}

\* a request answered after the backend timed out
C11_Witness ==
  /\ ask.pc = "done"
  /\ ask.webRaised = "Timeout"
  /\ ask.status = "ok"
  /\ ask.out.sources = {"gemini"}

\* C12: with an empty knowledge base, no available generation backend and no
\* web-search key, query returns the "couldn't find any relevant information"
\* answer with an empty citation list and a confidence of 0.0.
C12_EmptyKbFallback ==
  (/\ ask.pc = "done"
   /\ PipelineIx.documents = <<>>
   /\ cfg.generator # "available"
   /\ ~cfg.searchKey)
    => /\ ask.status = "ok"
       /\ ask.out.answer = NotFoundAnswer
       /\ ask.out.citations = <<>>
       /\ "confidence" \in DOMAIN ask.out
       /\ ask.out.confidence = 0

\* the two top results of the request lie within 0.1 of each other and carry
\* two different topic tags
CloseTopics ==
  /\ Len(ask.context) > 1
  /\ ask.context[1].score - ask.context[2].score < 100
  /\ ask.context[2].score - ask.context[1].score < 100
  /\ Cardinality(TopicsOf(Take(ask.context, 2))) = 2

\* C13: when the two top retrieved results have scores within 0.1 of each
\* other and two different topic tags, the response of query has
\* needs_clarification = True and a clarification question naming both topics.
C13_ClarificationTrigger ==
  (ask.pc = "done" /\ ask.status = "ok" /\ CloseTopics)
    => /\ "needs_clarification" \in DOMAIN ask.out
       /\ ask.out.needs_clarification
       /\ "clarification_question" \in DOMAIN ask.out
       /\ \A t \in TopicsOf(Take(ask.context, 2)) :
            \E i \in DOMAIN ask.out.clarification_question :
              ask.out.clarification_question[i] = t

\* C14: retrieve(query, top_k, score_threshold) returns at most top_k results,
\* each with a score >= score_threshold, however many candidates the index
\* search with k = 2 * top_k returned (a single candidate included).
C14_RetrieveBounded ==
  ask.retrieved
    => /\ Len(ask.context) <= ask.top_k
       /\ \A i \in DOMAIN ask.context : ask.context[i].score >= ScoreThreshold

----------------------------------------------------------------------------
(* SpecReindex: api/routes_retrieval.py, a reindex request and a search      *)
(* request on the pipeline of the retrieval router                           *)

\* DocumentIndex instances that may exist (the first one and one per reindex)
MaxInstances == 3

File(content, ext, loadable) ==
  [content |-> content, metadata |-> [source |-> "kb/file", type |-> ext],
   ext |-> ext, loadable |-> loadable]

\* the knowledge-base directories a reindex may find
SampleKbs ==
  { <<>>,
    <<File(<<" ", NL>>, "txt", TRUE)>>,
    <<File(<<"a", "b">>, "png", TRUE), File(<<"c", "d">>, "md", TRUE)>>,
    <<File(<<"a", "b">>, "txt", TRUE), File(<<"c">>, "pdf", FALSE)>> }

\* fname.lower().endswith((".pdf", ".txt", ".md", ".docx"))
Indexable(file) == file.ext \in {"pdf", "txt", "md", "docx"}

\* the instance a reindex rebuilds in place: the pipeline's own index
NewIndexRef_InPlace(live, fresh) == live

\* the instance a reindex fills: new_index = DocumentIndex(...), a fresh one
\* (routes_retrieval.py:106)
NewIndexRef(live, fresh) == fresh

InitReindex ==
  /\ dix = NewDocumentIndex /\ last = NoOp /\ producedBy = <<>>
  /\ ask = AskIdle /\ answers = {} /\ webAnswered = {}
  /\ \E docs \in SampleCorpora : heap = <<BuiltFrom(docs)>>
  /\ pipelineIndex = 1
  /\ cfg = [generator |-> "none", searchKey |-> FALSE]
  /\ disk = NoDisk
  /\ kb \in SampleKbs
  /\ rx = RxIdle
  /\ sr = SrIdle
  /\ published = {heap[1]}
  /\ AppAtRest
  /\ db = EmptyDb

\* reindex_kb is called: new_index = DocumentIndex(...)
ReindexStart ==
  /\ rx.pc = "idle"
  /\ Len(heap) < MaxInstances
  /\ heap' = Append(heap, NewDocumentIndex)
  /\ rx' = [RxIdle EXCEPT !.pc = "walk",
                          !.new_index = NewIndexRef(pipelineIndex, Len(heap) + 1)]
  /\ UNCHANGED <<appVars, indexVars, queryVars, pipelineIndex, cfg, disk, kb, sr, published>>

\* one file of the walk (routes_retrieval.py:108-114); a failure of the loader
\* leaves the handler through its except clause with status 500
ReindexLoad ==
  /\ rx.pc = "walk"
  /\ rx.cursor < Len(kb)
  /\ LET file == kb[rx.cursor + 1]
     IN  IF ~Indexable(file)
         THEN /\ rx' = [rx EXCEPT !.cursor = @ + 1]
              /\ heap' = heap
         ELSE IF ~file.loadable
         THEN /\ rx' = [rx EXCEPT !.pc = "done", !.status = 500]
              /\ heap' = heap
         ELSE /\ rx' = [rx EXCEPT !.cursor = @ + 1, !.indexed_docs = @ + 1]
              /\ heap' = [heap EXCEPT ![rx.new_index] =
                            add_document(@, file.content, file.metadata).ix]
  /\ UNCHANGED <<appVars, indexVars, queryVars, pipelineIndex, cfg, disk, kb, sr, published>>

\* new_index.build_index()  (routes_retrieval.py:115)
ReindexBuild ==
  /\ rx.pc = "walk"
  /\ rx.cursor = Len(kb)
  /\ \E embedOk \in BOOLEAN :
       LET r == build_index(heap[rx.new_index], embedOk)
       IN  /\ heap' = [heap EXCEPT ![rx.new_index] = r.ix]
           /\ rx' = IF r.raised # "none" THEN [rx EXCEPT !.pc = "done", !.status = 500]
                    ELSE [rx EXCEPT !.pc = "save"]
  /\ UNCHANGED <<appVars, indexVars, queryVars, pipelineIndex, cfg, disk, kb, sr, published>>

\* new_index.save(str(settings.INDEX_DIR))  (routes_retrieval.py:116)
ReindexSave ==
  /\ rx.pc = "save"
  /\ LET r == save(heap[rx.new_index], disk)
     IN  /\ disk' = r.disk
         /\ rx' = IF r.raised # "none" THEN [rx EXCEPT !.pc = "done", !.status = 500]
                  ELSE [rx EXCEPT !.pc = "swap"]
  /\ UNCHANGED <<appVars, indexVars, queryVars, heap, pipelineIndex, cfg, kb, sr, published>>

\* rag_pipeline.index = new_index  (routes_retrieval.py:118)
ReindexSwap ==
  /\ rx.pc = "swap"
  /\ pipelineIndex' = rx.new_index
  /\ published' = published \cup {heap[rx.new_index]}
  /\ rx' = [rx EXCEPT !.pc = "done", !.status = 200]
  /\ UNCHANGED <<appVars, indexVars, queryVars, heap, cfg, disk, kb, sr>>

\* the reindex request has its response
ReindexFinish ==
  /\ rx.pc = "done"
  /\ rx' = RxIdle
  /\ UNCHANGED <<appVars, indexVars, queryVars, pipeVars, kb, sr, published>>

\* search_documents is called
SearchStart ==
  /\ sr.pc = "idle"
  /\ \E query \in SampleQueries, top_k \in 1..MaxTopK :
       sr' = [SrIdle EXCEPT !.pc = "read", !.query = query, !.top_k = top_k]
  /\ UNCHANGED <<appVars, indexVars, queryVars, pipeVars, kb, rx, published>>

\* retrieve evaluates self.index  (pipeline.py:339)
SearchReadIndex ==
  /\ sr.pc = "read"
  /\ sr' = [sr EXCEPT !.pc = "probe", !.ref = pipelineIndex]
  /\ UNCHANGED <<appVars, indexVars, queryVars, pipeVars, kb, rx, published>>

\* DocumentIndex.search up to the vector search, on the instance read before
SearchRunProbe ==
  /\ sr.pc = "probe"
  /\ \E embedOk \in BOOLEAN :
       \E p \in SearchProbe(heap[sr.ref], sr.query, 2 * sr.top_k, embedOk) :
         sr' = [sr EXCEPT !.pc = IF p.raised # "none" THEN "done" ELSE "map",
                          !.raised = p.raised,
                          !.status = IF p.raised # "none" THEN 500 ELSE 0,
                          !.hits = p.hits,
                          !.obs = [NoObs EXCEPT !.index = heap[sr.ref].index,
                                                !.guardChunks = heap[sr.ref].chunks]]
  /\ UNCHANGED <<appVars, indexVars, queryVars, pipeVars, kb, rx, published>>

\* the result loop of DocumentIndex.search, then the rest of retrieve and the
\* response of search_documents (routes_retrieval.py:82-98)
SearchMapHits ==
  /\ sr.pc = "map"
  /\ LET ix == heap[sr.ref]
         m  == MapHits(ix, sr.hits)
         obs == [sr.obs EXCEPT !.mapped = TRUE, !.chunks = ix.chunks,
                               !.documents = ix.documents,
                               !.chunk_to_doc = ix.chunk_to_doc]
     IN  IF m.raised # "none"
         THEN sr' = [sr EXCEPT !.pc = "done", !.raised = m.raised, !.status = 500,
                               !.obs = obs]
         ELSE \E cross \in CrossChoices(Len(m.results)) :
                sr' = [sr EXCEPT !.pc = "done", !.status = 200, !.obs = obs,
                         !.results = IF m.results = <<>> THEN <<>>
                                     ELSE RetrieveFormat(m.results, cross, sr.top_k,
                                                         ScoreThreshold)]
  /\ UNCHANGED <<appVars, indexVars, queryVars, pipeVars, kb, rx, published>>

\* the search request has its response
SearchFinish ==
  /\ sr.pc = "done"
  /\ sr' = SrIdle
  /\ UNCHANGED <<appVars, indexVars, queryVars, pipeVars, kb, rx, published>>

NextReindex ==
  \/ ReindexStart \/ ReindexLoad \/ ReindexBuild \/ ReindexSave \/ ReindexSwap
  \/ ReindexFinish
  \/ SearchStart \/ SearchReadIndex \/ SearchRunProbe \/ SearchMapHits \/ SearchFinish

SpecReindex == InitReindex /\ [][NextReindex]_vars

\* the search saw exactly the index snap
SawWhole(snap) ==
  /\ sr.obs.index = snap.index
  /\ sr.obs.guardChunks = snap.chunks
  /\ sr.obs.mapped
       => /\ sr.obs.chunks = snap.chunks
          /\ sr.obs.documents = snap.documents
          /\ sr.obs.chunk_to_doc = snap.chunk_to_doc
  /\ \E embedOk \in BOOLEAN :
       [raised |-> sr.raised, results |-> sr.results]
         \in retrieve(snap, sr.query, sr.top_k, ScoreThreshold, embedOk)

\* C1: a search that runs while a reindex rebuilds the shared index sees one
\* whole index: its vectors, chunks, documents and chunk_to_doc are those of
\* one index the pipeline was given (the old one or the new one), and its
\* outcome is an outcome of a search of that index.
C1_SearchSeesWholeIndex ==
  sr.pc = "done" => \E snap \in published : SawWhole(snap)

\* a search that read the pipeline's index before a reindex replaced it and
\* answered from the old index afterwards
C1_Witness ==
  /\ sr.pc = "done"
  /\ sr.ref # pipelineIndex
  /\ sr.results # <<>>
  /\ Cardinality(published) = 2

RECURSIVE LoadableDocs(_)
\* the metadata of the files of a directory that have an indexable extension
\* and that the loader can read, in the order of the walk
LoadableDocs(files) ==
  IF files = <<>> THEN <<>>
  ELSE (IF Indexable(files[1]) /\ files[1].loadable THEN <<files[1].metadata>> ELSE <<>>)
         \o LoadableDocs(Tail(files))

\* C22: in a batch ingestion a source that fails to load is skipped: the walk
\* goes on over the remaining sources, and the batch ends with an index that
\* holds every loadable source.
C22_BatchSkipsFailedSource ==
  rx.pc = "done"
    => /\ rx.cursor = Len(kb)
       /\ heap[rx.new_index].documents = LoadableDocs(kb)

----------------------------------------------------------------------------
(* SpecRank: the reranker, the confidence score and the grounded response,  *)
(* each called on ranked lists                                              *)

\* longest list handed to the reranker
MaxRanked == 3
\* longest retrieved set handed to generate_response
MaxContext == 4

\* a retrieved document as retrieve formats it (pipeline.py:357-362)
Ranked(content, score, source) ==
  [content |-> content, score |-> score, metadata |-> [source |-> source],
   source |-> source]

RankDocs ==
  { Ranked(<<"a">>, 0, "kb1"), Ranked(<<"b">>, 400, "kb2"),
    Ranked(<<"c">>, 400, "kb1"), Ranked(<<"d">>, 900, "kb3") }

\* the sequences over S of length at most n
SeqsUpTo(S, n) == UNION {[1..m -> S] : m \in 0..n}

\* top scores on both sides of the range the confidence maps from
TopScores == {-100, 0, 499, 500, 501, 750, 999, 1000, 1200}

\* score_threshold of a rerank call: the default 0.0 (reranker.py:57) and the
\* pipeline's
RankThresholds == {0, ScoreThreshold}

\* the documents a response is generated from
CiteDocs ==
  { Ranked(<<"a">>, 900, "kb1"), Ranked(<<"b">>, 800, "kb2"),
    Ranked(<<"c">>, 700, "kb3"), Ranked(<<"d">>, 600, "kb4"),
    Ranked(<<"e">>, 600, "") }

NoCall ==
  [op |-> "init", documents |-> <<>>, scores |-> <<>>, top_k |-> 0,
   score_threshold |-> 0, result |-> <<>>, raised |-> FALSE,
   confidence |-> 0, better |-> 0, response |-> NoResponse,
   clarification |-> [needs_clarification |-> FALSE, clarification_question |-> <<>>]]

\* a retrieved document whose metadata carries a topic tag
Tagged(content, score, topic) ==
  [content |-> content, score |-> score,
   metadata |-> [source |-> "kb1", topic |-> topic], source |-> "kb1"]

\* the documents the clarification gate is asked about: tagged and untagged,
\* with scores closer and farther than 0.1
ClarDocs ==
  { Tagged(<<"a">>, 900, "waste"), Tagged(<<"b">>, 850, "water"),
    Tagged(<<"c">>, 700, ""), Ranked(<<"d">>, 850, "kb2"),
    Ranked(<<"e">>, 600, "kb3") }

\* confidences on both sides of confidence_threshold / 2
ClarConfidences == {0, 349, 350, 800}

InitRank ==
  /\ ServeAtRest
  /\ dix = NewDocumentIndex
  /\ producedBy = <<>>
  /\ last = NoCall

\* the scorer's answers for n documents; <<>> is its failure
ScoreChoices(n) == [1..n -> CrossScores] \cup {<<>>}

\* Reranker.rerank is called
Rerank ==
  /\ last = NoCall
  /\ \E documents \in SeqsUpTo(RankDocs, MaxRanked), top_k \in 1..MaxTopK,
     score_threshold \in RankThresholds :
    \E scores \in ScoreChoices(Len(documents)) :
      /\ last' = [NoCall EXCEPT !.op = "rerank", !.documents = documents,
                    !.scores = scores, !.top_k = top_k,
                    !.score_threshold = score_threshold,
                    !.result = rerank(documents, scores, top_k, score_threshold)]
      /\ UNCHANGED <<appVars, dix, producedBy, pipeVars, queryVars, reindexVars>>

\* Reranker.rerank_with_hybrid_scores is called
RerankHybrid ==
  /\ last = NoCall
  /\ \E documents \in SeqsUpTo(RankDocs, MaxRanked), top_k \in 1..MaxTopK,
     score_threshold \in RankThresholds :
    \E scores \in ScoreChoices(Len(documents)) :
      /\ last' = [NoCall EXCEPT !.op = "rerank_with_hybrid_scores",
                    !.documents = documents, !.scores = scores, !.top_k = top_k,
                    !.score_threshold = score_threshold,
                    !.result = rerank_with_hybrid_scores(documents, scores, top_k,
                                                         score_threshold)]
      /\ UNCHANGED <<appVars, dix, producedBy, pipeVars, queryVars, reindexVars>>

\* the ranked list rest with a document of score s at its top
WithTop(s, rest) == <<Ranked(<<"t">>, s, "kb1")>> \o rest

\* RAGPipeline._calculate_confidence is called on a ranked list
CalculateConfidence ==
  /\ last = NoCall
  /\ \E documents \in {<<>>} \cup {WithTop(s, rest) :
                                  s \in TopScores,
                                  rest \in SeqsUpTo(RankDocs, MaxRanked - 1)} :
    /\ last' = [NoCall EXCEPT !.op = "_calculate_confidence",
                  !.documents = documents,
                  !.confidence = _calculate_confidence(documents)]
    /\ UNCHANGED <<appVars, dix, producedBy, pipeVars, queryVars, reindexVars>>

\* _calculate_confidence is called again after the top result was replaced by
\* one of strictly higher score
ReplaceTop ==
  /\ last = NoCall
  /\ \E s \in TopScores, t \in TopScores, rest \in SeqsUpTo(RankDocs, MaxRanked - 1) :
    /\ t > s
    /\ last' = [NoCall EXCEPT !.op = "replace_top",
                  !.documents = WithTop(s, rest),
                  !.confidence = _calculate_confidence(WithTop(s, rest)),
                  !.better = _calculate_confidence(WithTop(t, rest))]
    /\ UNCHANGED <<appVars, dix, producedBy, pipeVars, queryVars, reindexVars>>

\* RAGPipeline.generate_response is called on a retrieved set
GenerateResponse ==
  /\ last = NoCall
  /\ \E context \in SeqsUpTo(CiteDocs, MaxContext),
     generator \in {"none", "available"}, mode \in GenModes :
    /\ last' = [NoCall EXCEPT !.op = "generate_response", !.documents = context,
                  !.response = generate_response(generator, <<"a">>, context, mode)]
    /\ UNCHANGED <<appVars, dix, producedBy, pipeVars, queryVars, reindexVars>>

\* RAGPipeline._needs_clarification is called on a retrieved set
NeedsClarification ==
  /\ last = NoCall
  /\ \E documents \in SeqsUpTo(ClarDocs, MaxRanked), confidence \in ClarConfidences :
       \E out \in _needs_clarification(documents, confidence) :
         /\ last' = [NoCall EXCEPT !.op = "_needs_clarification",
                       !.documents = documents, !.confidence = confidence,
                       !.clarification = out]
         /\ UNCHANGED <<appVars, dix, producedBy, pipeVars, queryVars, reindexVars>>

\* the call has returned; the next one may come
Return ==
  /\ last # NoCall
  /\ last' = NoCall
  /\ UNCHANGED <<appVars, dix, producedBy, pipeVars, queryVars, reindexVars>>

NextRank ==
  \/ Rerank \/ RerankHybrid \/ CalculateConfidence \/ ReplaceTop \/ GenerateResponse
  \/ NeedsClarification \/ Return

SpecRank == InitRank /\ [][NextRank]_vars

----------------------------------------------------------------------------
(* Properties of the ranking functions, checked under SpecRank *)

\* the scores the last rerank call gave its documents
NewScores ==
  IF last.op = "rerank"
  THEN [i \in DOMAIN last.documents |-> 1000 * last.scores[i]]
  ELSE LET first == [i \in DOMAIN last.documents |-> last.documents[i].score]
       IN  [i \in DOMAIN last.documents |-> CombinedScore(first, last.scores, i)]

\* result lists the input documents at the positions pick, rescored
PicksRescored(pick) ==
  /\ \A j, l \in DOMAIN pick : j # l => pick[j] # pick[l]
  /\ \A j \in DOMAIN pick :
       last.result[j] = [last.documents[pick[j]] EXCEPT !.score = NewScores[pick[j]]]
  /\ \A i \in DOMAIN last.documents :
       (NewScores[i] >= last.score_threshold /\ \A j \in DOMAIN pick : pick[j] # i)
         => /\ Len(last.result) = last.top_k
            /\ NewScores[i] <= last.result[Len(last.result)].score

\* C15: when the scorer succeeds, rerank and rerank_with_hybrid_scores return
\* documents of the input with the score overwritten by the new score, in
\* non-increasing order of score, none below score_threshold, at most top_k of
\* them, and no passing document left out scores higher than one returned.
C15_RerankOrdersAndFilters ==
  (last.op \in {"rerank", "rerank_with_hybrid_scores"} /\ last.scores # <<>>)
    => /\ Len(last.result) <= last.top_k
       /\ \A j \in DOMAIN last.result : last.result[j].score >= last.score_threshold
       /\ \A j \in 1..(Len(last.result) - 1) :
            last.result[j].score >= last.result[j + 1].score
       /\ \E pick \in [DOMAIN last.result -> DOMAIN last.documents] : PicksRescored(pick)

\* a hybrid rerank that dropped a document under the threshold and cut the
\* rest to top_k
C15_Witness ==
  /\ last.op = "rerank_with_hybrid_scores"
  /\ last.scores # <<>>
  /\ Len(last.documents) = 3
  /\ Len(last.result) = 2
  /\ \E i \in DOMAIN last.documents : NewScores[i] < last.score_threshold
  /\ last.result[1].score > last.result[2].score

\* C16: when the cross-encoder fails, rerank and rerank_with_hybrid_scores
\* raise nothing and return the first top_k documents of the input, in the
\* input's order and with the input's scores.
C16_ScorerFailureKeepsInput ==
  (/\ last.op \in {"rerank", "rerank_with_hybrid_scores"}
   /\ last.documents # <<>>
   /\ last.scores = <<>>)
    => /\ ~last.raised
       /\ Len(last.result) = Min2(last.top_k, Len(last.documents))
       /\ \A j \in DOMAIN last.result : last.result[j] = last.documents[j]

\* a failed rerank of three documents cut to the first two
C16_Witness ==
  /\ last.op = "rerank"
  /\ last.scores = <<>>
  /\ Len(last.documents) = 3
  /\ last.result = SubSeq(last.documents, 1, 2)

\* C17: the confidence is 0 for an empty list and otherwise (top_score - 0.5)
\* * 2 clamped to [0, 1]: always within [0, 1] and a function of the first
\* document's score alone.
C17_ConfidenceFormula ==
  last.op = "_calculate_confidence"
    => /\ last.confidence >= 0 /\ last.confidence <= 1000
       /\ last.documents = <<>> => last.confidence = 0
       /\ last.documents # <<>>
            => LET top == last.documents[1].score
               IN  last.confidence = IF top <= 500 THEN 0
                                     ELSE IF top >= 1000 THEN 1000
                                     ELSE 2 * top - 1000

\* a top score above 1.0 clamped to full confidence, with lower-ranked
\* documents behind it
C17_Witness ==
  /\ last.op = "_calculate_confidence"
  /\ Len(last.documents) > 1
  /\ last.documents[1].score > 1000
  /\ last.confidence = 1000

\* C18: replacing the top result of a ranked list with one of strictly higher
\* score never lowers the confidence.
C18_ConfidenceMonotone ==
  last.op = "replace_top" => last.better >= last.confidence

\* a replacement that raised the confidence
C18_Witness ==
  /\ last.op = "replace_top"
  /\ last.confidence > 0
  /\ last.better > last.confidence

\* C19: a response carries at most 3 citations and no two of them have the
\* same source_link, whatever the retrieved set.
C19_CitationsCappedDistinct ==
  last.op = "generate_response"
    => LET citations == last.response.citations
       IN  /\ Len(citations) <= 3
           /\ \A i, j \in DOMAIN citations :
                i # j => citations[i].source_link # citations[j].source_link

\* four retrieved documents of four sources, cited three times
C19_Witness ==
  /\ last.op = "generate_response"
  /\ Len(last.documents) = 4
  /\ Cardinality({last.documents[i].source : i \in 1..4}) = 4
  /\ Len(last.response.citations) = 3

\* the document carries a topic tag
HasTopic(doc) == "topic" \in DOMAIN doc.metadata /\ doc.metadata.topic # ""

\* |a - b|
AbsDiff(a, b) == IF a >= b THEN a - b ELSE b - a

\* C25: _needs_clarification asks for clarification exactly when the
\* confidence is below confidence_threshold / 2 (with the generic question),
\* or else when at least two documents are returned, the top two scores differ
\* by less than 0.1 and both of the top two documents carry a topic tag; in
\* every other case it answers without clarification.
C25_ClarificationGate ==
  last.op = "_needs_clarification"
    => LET documents == last.documents
           generic == 2 * last.confidence < ConfidenceThreshold
           ambiguous == /\ Len(documents) >= 2
                        /\ AbsDiff(documents[1].score, documents[2].score) < 100
                        /\ HasTopic(documents[1])
                        /\ HasTopic(documents[2])
       IN  /\ last.clarification.needs_clarification = (generic \/ ambiguous)
           /\ generic => last.clarification.clarification_question = GenericClarification
           /\ ~(generic \/ ambiguous) => last.clarification.clarification_question = <<>>

\* C26: a citation's snippet is the first 200 characters of the cited
\* content, followed by an ellipsis only when the content is longer than that;
\* shorter content is the snippet as it stands.
C26_SnippetEllipsisOnlyIfCut ==
  last.op = "generate_response"
    => \A i \in DOMAIN last.response.citations :
         \E j \in 1..Min2(3, Len(last.documents)) :
           LET content == last.documents[j].content
           IN  /\ last.documents[j].source = last.response.citations[i].source_link
               /\ last.response.citations[i].snippet =
                    IF Len(content) <= 200 THEN content
                    ELSE Take(content, 200) \o <<"...">>

----------------------------------------------------------------------------
(* SpecPersist: a DocumentIndex is filled, saved and loaded again *)

\* DocumentIndex.load: the instance read from the files and whether it raised.
\* The vector file is read when it exists; a sidecar that save opened and left
\* empty is not JSON.  Strings, lists and string-keyed dicts come back from
\* JSON as they went in, and TextChunk(**chunk) takes the stored fields.
load(dsk) ==
  LET fresh == [NewDocumentIndex EXCEPT
                  !.index = IF dsk.faiss.present
                            THEN [built |-> TRUE, vecs |-> dsk.faiss.vecs]
                            ELSE IndexNone]
  IN  CASE dsk.sidecar.state = "absent" -> [ix |-> fresh, raised |-> "none"]
        [] dsk.sidecar.state = "truncated" ->
             [ix |-> fresh, raised |-> "JSONDecodeError"]
        [] OTHER ->
             [ix |-> [fresh EXCEPT !.documents = dsk.sidecar.documents,
                                   !.chunks = dsk.sidecar.chunks,
                                   !.chunk_to_doc = dsk.sidecar.chunk_to_doc],
              raised |-> "none"]

\* the index is still being filled: it was not saved yet
Filling == last.op \in {"init", "new", "add_document", "build_index"}

FillAdd == Filling /\ AddDocument

FillBuild == Filling /\ BuildIndex

\* index.save(path)
Save ==
  /\ Filling
  /\ LET r == save(dix, disk)
     IN  /\ disk' = r.disk
         /\ last' = [NoOp EXCEPT !.op = "save", !.raised = r.raised, !.pre = dix,
                                 !.prev = PrevOp]
  /\ UNCHANGED <<appVars, dix, producedBy, heap, pipelineIndex, cfg, queryVars, reindexVars>>

\* loaded = DocumentIndex.load(path), after the save
Load ==
  /\ last.op = "save"
  /\ LET r == load(disk)
     IN  /\ heap' = IF r.raised = "none" THEN <<r.ix>> ELSE heap
         /\ last' = [NoOp EXCEPT !.op = "load", !.raised = r.raised, !.pre = dix,
                                 !.prev = PrevOp]
  /\ UNCHANGED <<appVars, dix, producedBy, pipelineIndex, cfg, disk, queryVars, reindexVars>>

\* DocumentIndex(index_path=INDEX_DIR): a new, empty instance over the
\* directory the last save wrote to (routes_retrieval.py:106)
NewInstance ==
  /\ last.op = "save"
  /\ dix' = NewDocumentIndex
  /\ producedBy' = <<>>
  /\ last' = [NoOp EXCEPT !.op = "new", !.pre = dix, !.prev = PrevOp]
  /\ UNCHANGED <<appVars, pipeVars, queryVars, reindexVars>>

NextPersist == FillAdd \/ FillBuild \/ Save \/ Load \/ NewInstance

SpecPersist == InitIndex /\ [][NextPersist]_vars

\* C20: save followed by load of an index with N documents and M chunks raises
\* nothing and yields an index with the same documents, chunks and
\* chunk_to_doc, whose search returns for every query and k what the saved
\* instance returns, for every N >= 0 and M >= 0.
C20_SaveLoadRoundTrip ==
  /\ last.op = "save" => last.raised = "none"
  /\ last.op = "load"
       => /\ last.prev.raised = "none"
          /\ last.raised = "none"
          /\ heap[1].documents = dix.documents
          /\ heap[1].chunks = dix.chunks
          /\ heap[1].chunk_to_doc = dix.chunk_to_doc
          /\ \A query \in SampleQueries, k \in 1..MaxK :
               search(heap[1], query, k, TRUE) = search(dix, query, k, TRUE)

\* the vectors stored in the vector-index file
StoredVectors == IF disk.faiss.present THEN Len(disk.faiss.vecs) ELSE 0

\* C21: load fails, and returns no index, whenever the sidecar's chunk_to_doc
\* has another length than the number of vectors in the vector-index file.
C21_LoadRejectsMismatch ==
  (/\ last.op = "load"
   /\ disk.sidecar.state = "written"
   /\ Len(disk.sidecar.chunk_to_doc) # StoredVectors)
    => last.raised # "none"

\* ---------------------------------------------------------------------------
\* IncidentService (src/app/services/incident_service.py)
\* ---------------------------------------------------------------------------

\* the zero padding of the sequence number in an incident id ("{next_num:03d}")
IdWidth == 3

\* service calls started over one run
MaxCalls == 2

DigitChars == <<"0", "1", "2", "3", "4", "5", "6", "7", "8", "9">>

DigitVal(c) == CHOOSE d \in 0..9 : DigitChars[d + 1] = c

\* str(n): the decimal digits of a natural number
RECURSIVE Digits(_)
Digits(n) == IF n < 10 THEN <<DigitChars[n + 1]>>
             ELSE Digits(n \div 10) \o <<DigitChars[(n % 10) + 1]>>

\* int(s) of a string of decimal digits
RECURSIVE ParseInt(_)
ParseInt(s) == IF s = <<>> THEN 0
               ELSE 10 * ParseInt(SubSeq(s, 1, Len(s) - 1)) + DigitVal(s[Len(s)])

RECURSIVE ZeroPad(_, _)
ZeroPad(s, width) == IF Len(s) >= width THEN s ELSE ZeroPad(<<"0">> \o s, width)

\* f"INC-{current_year}-{next_num:03d}": the part after the year, which is all
\* that differs between two ids of one year
FormatId(next_num) == ZeroPad(Digits(next_num), IdWidth)

\* the order of two strings in the database: character by character
RECURSIVE StrLess(_, _)
StrLess(a, b) ==
  IF b = <<>> THEN FALSE
  ELSE IF a = <<>> THEN TRUE
  ELSE IF a[1] # b[1] THEN DigitVal(a[1]) < DigitVal(b[1])
  ELSE StrLess(Tail(a), Tail(b))

\* order_by(desc(Incident.id)).first() over the incidents of the year
RECURSIVE LatestId(_, _, _)
LatestId(incidents, lo, hi) ==
  IF lo = hi THEN incidents[lo].id
  ELSE LET mid == (lo + hi) \div 2
           a == LatestId(incidents, lo, mid)
           b == LatestId(incidents, mid + 1, hi)
       IN IF StrLess(a, b) THEN b ELSE a

_generate_incident_id(incidents) ==
  IF incidents # <<>>
    THEN FormatId(ParseInt(LatestId(incidents, 1, Len(incidents))) + 1)
    ELSE FormatId(1)

IncidentStatus == {"NEW", "IN_PROGRESS", "RESOLVED", "CLOSED"}

ValidPriorities == {"LOW", "MEDIUM", "HIGH", "URGENT"}

\* str.upper() on the words the calls are made with
Upper(word) ==
  CASE word = "in_progress" -> "IN_PROGRESS"
    [] word = "resolved" -> "RESOLVED"
    [] word = "bogus" -> "BOGUS"
    [] word = "high" -> "HIGH"
    [] OTHER -> word

\* Incident(id=incident_id, status=IncidentStatus.NEW, ...) with its initial
\* IncidentHistory(status=IncidentStatus.NEW)
NewIncident(incident_id, priority) ==
  [id |-> incident_id, status |-> "NEW", priority |-> priority,
   history |-> <<"NEW">>]

StoredIds == {db.incidents[i].id : i \in 1..Len(db.incidents)}

\* db.query(Incident).filter(Incident.id == incident_id).first(): its
\* position, 0 for None
FindIncident(incidents, incident_id) ==
  IF \E i \in 1..Len(incidents) : incidents[i].id = incident_id
    THEN CHOOSE i \in 1..Len(incidents) : incidents[i].id = incident_id
    ELSE 0

\* the status an IncidentHistory entry of update_incident is written with
HistoryStatus_Old(old_status, incident_status) == old_status

HistoryStatus(old_status, incident_status) == incident_status

\* update_incident on the committed incidents: the incidents afterwards and
\* the value returned
update_incident(incidents, incident_id, status, notes, priority, commitOk) ==
  LET at == FindIncident(incidents, incident_id)
      unchanged == [incidents |-> incidents, result |-> "False"]
  IN IF at = 0 THEN unchanged
     ELSE
       LET incident == incidents[at]
           old_status == incident.status
           setStatus == status # ""
           setPriority == priority # "" /\ Upper(priority) \in ValidPriorities
           updated == setStatus \/ setPriority
       IN IF setStatus /\ Upper(status) \notin IncidentStatus THEN unchanged
          ELSE IF ~updated /\ ~notes THEN unchanged
          ELSE IF ~commitOk THEN unchanged
          ELSE
            LET new_status == IF setStatus THEN Upper(status) ELSE old_status
                after ==
                  [incident EXCEPT
                     !.status = new_status,
                     !.priority = IF setPriority THEN Upper(priority) ELSE @,
                     !.history = Append(@, HistoryStatus(old_status, new_status))]
            IN [incidents |-> [incidents EXCEPT ![at] = after],
                result |-> "True"]

\* the incidents of a year in which n reports were filed and none touched
SeededIncidents(n) == [i \in 1..n |-> NewIncident(FormatId(i), "MEDIUM")]

\* 10^IdWidth - 1: the last sequence number the padding holds
RECURSIVE Pow10(_)
Pow10(e) == IF e = 0 THEN 1 ELSE 10 * Pow10(e - 1)

LastPadded == Pow10(IdWidth) - 1

\* the ids the update calls name
UpdateIds == {FormatId(1), FormatId(LastPadded + 1)}

UpdateStatuses == {"", "in_progress", "resolved", "bogus"}

UpdatePriorities == {"", "high"}

RECURSIVE CallsOf(_)
CallsOf(n) == IF n = 0 THEN 0 ELSE req[n].calls + CallsOf(n - 1)

\* the calls started so far, over all sessions
CallsStarted == CallsOf(MaxSessions)

InitIncident ==
  /\ PipelineAtRest
  /\ dix = NewDocumentIndex
  /\ last = NoOp
  /\ producedBy = <<>>
  /\ db \in {EmptyDb, [EmptyDb EXCEPT !.incidents = SeededIncidents(LastPadded)]}

\* create_incident up to the id it generates (incident_service.py:25)
CreateGenerate(s) ==
  /\ req[s].pc = "idle"
  /\ CallsStarted < MaxCalls
  /\ req' = [req EXCEPT ![s] =
               [@ EXCEPT !.pc = "generated", !.op = "create",
                         !.incident_id = _generate_incident_id(db.incidents),
                         !.result = "none", !.calls = @ + 1]]
  /\ UNCHANGED <<db, routers, indexVars, pipeVars, queryVars, reindexVars>>

\* create_incident from db.add to its return: the flush raises IntegrityError
\* on a primary key that is stored already, the commit may fail, and either
\* way the except clause rolls back and re-raises
CreateCommit(s) ==
  /\ req[s].pc = "generated"
  /\ \E priority \in {"MEDIUM", "URGENT"}, commitOk \in BOOLEAN :
       LET incident_id == req[s].incident_id
       IN IF incident_id \in StoredIds
            THEN /\ req' = [req EXCEPT ![s] = [@ EXCEPT !.pc = "done",
                                                 !.result = "IntegrityError"]]
                 /\ db' = db
            ELSE IF ~commitOk
              THEN /\ req' = [req EXCEPT ![s] = [@ EXCEPT !.pc = "done",
                                                   !.result = "OperationalError"]]
                   /\ db' = db
              ELSE /\ req' = [req EXCEPT ![s] = [@ EXCEPT !.pc = "done",
                                                   !.status = "NEW",
                                                   !.result = "incident"]]
                   /\ db' = [db EXCEPT !.incidents =
                               Append(@, NewIncident(incident_id, priority))]
  /\ UNCHANGED <<routers, indexVars, pipeVars, queryVars, reindexVars>>

\* one whole update_incident call
UpdateIncident(s) ==
  /\ req[s].pc = "idle"
  /\ CallsStarted < MaxCalls
  /\ \E incident_id \in UpdateIds, status \in UpdateStatuses, notes \in BOOLEAN,
        priority \in UpdatePriorities, commitOk \in BOOLEAN :
       LET out == update_incident(db.incidents, incident_id, status, notes,
                                  priority, commitOk)
       IN /\ db' = [db EXCEPT !.incidents = out.incidents]
          /\ req' = [req EXCEPT ![s] =
                       [@ EXCEPT !.pc = "done", !.op = "update",
                                 !.incident_id = incident_id,
                                 !.status = status,
                                 !.result = out.result, !.calls = @ + 1]]
  /\ UNCHANGED <<routers, indexVars, pipeVars, queryVars, reindexVars>>

\* the call has returned: its locals are gone and the session is free for the
\* next request
IncidentReturn(s) ==
  /\ req[s].pc = "done"
  /\ req' = [req EXCEPT ![s] = [ReqIdle EXCEPT !.calls = req[s].calls]]
  /\ UNCHANGED <<db, routers, indexVars, pipeVars, queryVars, reindexVars>>

NextIncident ==
  \E s \in Sessions :
    \/ CreateGenerate(s)
    \/ CreateCommit(s)
    \/ UpdateIncident(s)
    \/ IncidentReturn(s)

SpecIncident == InitIncident /\ [][NextIncident]_vars

\* the service over a database that holds no incident yet: every incident
\* stored was created, and then updated, by the calls of the run
InitHistory ==
  /\ InitIncident
  /\ db = EmptyDb

SpecHistory == InitHistory /\ [][NextIncident]_vars

\* C23: every stored incident has a non-empty history whose first entry has
\* status NEW and whose most recent entry has the incident's current status.
C23_HistoryBracketsStatus ==
  \A i \in 1..Len(db.incidents) :
    LET incident == db.incidents[i]
    IN /\ incident.history # <<>>
       /\ incident.history[1] = "NEW"
       /\ incident.history[Len(incident.history)] = incident.status

\* an incident that was created by a call and then moved to another status
C23_Witness ==
  \E s \in Sessions, i \in 1..Len(db.incidents) :
    /\ req[s].op = "update"
    /\ req[s].result = "True"
    /\ db.incidents[i].status # "NEW"
    /\ Len(db.incidents[i].history) >= 2

\* C29: the id create_incident generates is none of the ids stored already,
\* however many incidents the year has and however two calls interleave.
C29_GeneratedIdIsFresh ==
  \A s \in Sessions :
    (req[s].op = "create" /\ req[s].pc = "generated")
      => req[s].incident_id \notin StoredIds

\* ---------------------------------------------------------------------------
\* ChatService (src/app/services/chat_service.py)
\* ---------------------------------------------------------------------------

\* a text key a dict does not hold, and a confidence it does not hold
Absent == "<absent>"

NoConfidence == -1

ChatApology ==
  "I apologize, but I'm having trouble processing your message right now. Please try again."

KbApology ==
  "I apologize, but I'm having trouble accessing the knowledge base right now. Please try again or contact support."

IncidentGuidance == "I can help you report an incident! ..."

StatusGuidance == "I can help you check the status of your incident report! ..."

LocationQuestion ==
  "To give you the most accurate information about services in your area, could you please tell me your location or ward? ..."

\* the session ids, messages and user contexts of the requests
ChatSessionIds == {"test-session-123", "s2"}

ChatMessages == {"Hello, I need help with waste collection", "What is a ward?"}

UserContexts == {"None", "location"}

\* any(keyword in message.lower() for keyword in location_keywords)
HasLocationKeyword(message) == message = "Hello, I need help with waste collection"

\* where the database fails during the call, if anywhere
DbFaults == {"none", "flush", "commit"}

\* what ai_service.classify_intent does: the AIService of ai_service.py
\* defines no such method, so the call raises AttributeError; a service
\* injected in its place names an intent
ClassifyOutcomes ==
  {"AttributeError", "incident_report", "status_check", "greeting",
   "service_question"}

\* what ai_service._handle_greeting and ai_service.generate_response do:
\* raise, or return a dict with or without the keys process_message reads
\* (requires_clarification is read with the default False)
AiAnswer(raised, response, citations, confidence) ==
  [raised |-> raised, response |-> response, citations |-> citations,
   confidence |-> confidence, requires_clarification |-> FALSE,
   clarification_question |-> Absent]

AiAnswers ==
  {AiAnswer("AttributeError", Absent, <<>>, NoConfidence),
   AiAnswer("none", "Echo", <<"kb1">>, 400),
   AiAnswer("none", "Echo", <<>>, NoConfidence),
   AiAnswer("none", Absent, <<>>, 800)}

\* the answers a call with this intent can get from the AI service: the
\* guidance handlers never call it
AnswersFor(intent) ==
  IF intent \in {"greeting", "service_question"} THEN AiAnswers
  ELSE {AiAnswer("none", Absent, <<>>, NoConfidence)}

\* _handle_incident_guidance
_handle_incident_guidance ==
  [raised |-> "none", response |-> IncidentGuidance, citations |-> <<>>, confidence |-> 900,
   requires_clarification |-> TRUE,
   clarification_question |->
     "Would you like to file an incident report or learn more about the process?"]

\* _handle_status_check_guidance
_handle_status_check_guidance ==
  [raised |-> "none", response |-> StatusGuidance, citations |-> <<>>, confidence |-> 900,
   requires_clarification |-> TRUE,
   clarification_question |->
     "Do you have your incident reference ID to check the status?"]

\* _needs_location_clarification
_needs_location_clarification(message, user_context, response_data) ==
  IF user_context = "location" THEN FALSE
  ELSE /\ HasLocationKeyword(message)
       /\ (IF response_data.confidence = NoConfidence THEN 1000
           ELSE response_data.confidence) < 700

\* _handle_service_question: the answer of generate_response, with the
\* location question where it is needed, or the apology of its own except
_handle_service_question(message, user_context, answer) ==
  IF answer.raised # "none"
    THEN [raised |-> "none", response |-> KbApology, citations |-> <<>>,
          confidence |-> 0, requires_clarification |-> FALSE,
          clarification_question |-> Absent]
    ELSE IF _needs_location_clarification(message, user_context, answer)
      THEN [answer EXCEPT !.requires_clarification = TRUE,
                          !.clarification_question = LocationQuestion]
      ELSE answer

\* the ChatResponse of the except clause of process_message
ErrorResponse_NoSession(session_id) ==
  [reply |-> ChatApology, citations |-> <<>>, confidence |-> 0,
   session_id |-> "", requires_clarification |-> FALSE,
   clarification_question |-> Absent]

ErrorResponse(session_id) ==
  [reply |-> ChatApology, citations |-> <<>>, confidence |-> 0,
   session_id |-> session_id, requires_clarification |-> FALSE,
   clarification_question |-> Absent]

\* the ChatResponse process_message builds from response_data
ChatResponse(response_data, session_id) ==
  [reply |-> response_data.response,
   citations |-> response_data.citations,
   confidence |-> IF response_data.confidence = NoConfidence THEN 500
                  ELSE response_data.confidence,
   session_id |-> session_id,
   requires_clarification |-> response_data.requires_clarification,
   clarification_question |-> response_data.clarification_question]

\* process_message over the committed database: the database afterwards, the
\* response returned and whether the except clause produced it
process_message(database, session_id, message, user_context, fault, intent, answer) ==
  LET failure == [db |-> database, response |-> ErrorResponse(session_id),
                  failed |-> TRUE]
  IN IF fault = "flush" THEN failure
     ELSE IF intent = "AttributeError" THEN failure
     ELSE IF intent = "greeting" /\ answer.raised # "none" THEN failure
     ELSE
       LET response_data ==
             CASE intent = "incident_report" -> _handle_incident_guidance
               [] intent = "status_check" -> _handle_status_check_guidance
               [] intent = "greeting" -> answer
               [] OTHER -> _handle_service_question(message, user_context, answer)
       IN IF response_data.response = Absent THEN failure
          ELSE IF fault = "commit" THEN failure
          ELSE
            [db |-> [database EXCEPT
                       !.conversations = @ \cup {session_id},
                       !.messages = @ (+) SetToBag(
                         {[session_id |-> session_id, sender |-> "USER",
                           content |-> message],
                          [session_id |-> session_id, sender |-> "ASSISTANT",
                           content |-> response_data.response]})],
             response |-> ChatResponse(response_data, session_id),
             failed |-> FALSE]

\* one whole process_message call
ProcessMessage(s) ==
  /\ req[s].pc = "idle"
  /\ CallsStarted < MaxCalls
  /\ \E session_id \in ChatSessionIds, message \in ChatMessages,
        user_context \in UserContexts, fault \in DbFaults,
        intent \in ClassifyOutcomes :
     \E answer \in AnswersFor(intent) :
       LET out == process_message(db, session_id, message, user_context,
                                  fault, intent, answer)
       IN /\ db' = out.db
          /\ req' = [req EXCEPT ![s] =
                       [@ EXCEPT !.pc = "done", !.op = "chat",
                                 !.session_id = session_id,
                                 !.response = out.response,
                                 !.failed = out.failed,
                                 !.calls = @ + 1]]
  /\ UNCHANGED <<routers, indexVars, pipeVars, queryVars, reindexVars>>

NextChat ==
  \E s \in Sessions :
    \/ ProcessMessage(s)
    \/ IncidentReturn(s)

SpecChat == InitIndex /\ [][NextChat]_vars

\* C24: every process_message call returns a response that has a reply and
\* carries the session_id of the request; when the call failed inside, the
\* reply is the apology, the citations are empty, the confidence is 0 and the
\* database is as it was before the call.
C24_AlwaysRepliesInSession ==
  [][\A s \in Sessions :
       (req[s].pc = "idle" /\ req'[s].pc = "done" /\ req'[s].op = "chat")
         => /\ req'[s].response.reply # Absent
            /\ req'[s].response.session_id = req'[s].session_id
            /\ req'[s].failed
                 => /\ req'[s].response.reply = ChatApology
                    /\ req'[s].response.citations = <<>>
                    /\ req'[s].response.confidence = 0
                    /\ db' = db]_vars

\* a call that failed inside and one that did not have both returned
C24_Witness ==
  \E s, t \in Sessions :
    /\ req[s].op = "chat" /\ req[s].pc = "done" /\ req[s].failed
    /\ req[t].op = "chat" /\ req[t].pc = "done" /\ ~req[t].failed
    /\ req[t].response.reply = "Echo"

\* ---------------------------------------------------------------------------
\* SpecChunk: SemanticChunker.chunk_document called on bounded texts
\* ---------------------------------------------------------------------------

\* longest text handed to the chunker
MaxText == 6

\* the characters of the texts: a letter, a full stop, a blank and a newline
ChunkChars == {"a", ".", " ", NL}

SourceTexts == SeqsUpTo(ChunkChars, MaxText)

\* the metadata of a document with and without a source key
ChunkMetadata == {[source |-> "kb1"], [title |-> "t"]}

NoChunkCall ==
  [op |-> "init", text |-> <<>>, metadata |-> [title |-> "t"],
   base |-> <<>>, chunks |-> <<>>]

InitChunk ==
  /\ ServeAtRest
  /\ dix = NewDocumentIndex
  /\ producedBy = <<>>
  /\ last = NoChunkCall

\* chunk_document is called
ChunkDocument ==
  /\ last = NoChunkCall
  /\ \E text \in SourceTexts, metadata \in ChunkMetadata :
       last' = [NoChunkCall EXCEPT !.op = "chunk_document", !.text = text,
                  !.metadata = metadata,
                  !.base = _base_chunks(text, metadata),
                  !.chunks = chunk_document(text, metadata)]
  /\ UNCHANGED <<appVars, dix, producedBy, pipeVars, queryVars, reindexVars>>

\* the call has returned
ChunkReturn ==
  /\ last # NoChunkCall
  /\ last' = NoChunkCall
  /\ UNCHANGED <<appVars, dix, producedBy, pipeVars, queryVars, reindexVars>>

NextChunk == ChunkDocument \/ ChunkReturn

SpecChunk == InitChunk /\ [][NextChunk]_vars

\* the last n characters of t, all of t when it is shorter
LastChars(t, n) == SubSeq(t, Max2(1, Len(t) - n + 1), Len(t))

\* C27: with chunk_overlap > 0, every chunk after the first begins with the
\* trailing min(chunk_overlap, length) characters of the previous chunk's
\* pre-overlap text, followed by the separator and its own pre-overlap text.
C27_OverlapPrefix ==
  (last.op = "chunk_document" /\ ChunkOverlap > 0)
    => /\ Len(last.chunks) = Len(last.base)
       /\ \A i \in 2..Len(last.chunks) :
            last.chunks[i].text =
              LastChars(last.base[i - 1].text, ChunkOverlap)
                \o <<NL, NL>> \o last.base[i].text

\* a document of two chunks whose first chunk is shorter than the overlap
C27_Witness ==
  /\ last.op = "chunk_document"
  /\ ChunkOverlap > 0
  /\ Len(last.chunks) = 2
  /\ Len(last.base[1].text) < ChunkOverlap
  /\ last.chunks[2].text # last.base[2].text

\* C28: the chunk_id of every returned chunk, the chunks rewritten by the
\* overlap pass among them, is the hash of the chunk's final text combined
\* with the source key of the document's metadata.
C28_IdFromFinalText ==
  last.op = "chunk_document"
    => \A i \in DOMAIN last.chunks :
         last.chunks[i].chunk_id =
           _generate_chunk_id(last.chunks[i].text, last.metadata)

\* ---------------------------------------------------------------------------
\* SpecServe: the three routers of src/ai-services/api, each with the pipeline
\* its own get_rag_pipeline builds on first use, and the reindex request
\* ---------------------------------------------------------------------------

RECURSIVE IngestKb(_, _, _)
\* the walk over the knowledge base (routes_retrieval.py:45-50 and 108-114):
\* the index with every indexable file added, up to the first file the loader
\* fails on, and the number of files added
IngestKb(ix, files, n) ==
  IF files = <<>> THEN [ix |-> ix, raised |-> "none", indexed_docs |-> n]
  ELSE IF ~Indexable(files[1]) THEN IngestKb(ix, Tail(files), n)
  ELSE IF ~files[1].loadable
       THEN [ix |-> ix, raised |-> "ValueError", indexed_docs |-> n]
  ELSE IngestKb(add_document(ix, files[1].content, files[1].metadata).ix,
                Tail(files), n + 1)

\* new_index.save(...) after build_index returned
SaveBuilt(built, dsk, n) ==
  IF built.raised # "none"
  THEN [ix |-> built.ix, disk |-> dsk, raised |-> built.raised, indexed_docs |-> n]
  ELSE [ix |-> built.ix, disk |-> save(built.ix, dsk).disk,
        raised |-> save(built.ix, dsk).raised, indexed_docs |-> n]

\* new_index.build_index() and save after the walk returned
BuildWalked(walked, dsk, embedOk) ==
  IF walked.raised # "none"
  THEN [ix |-> walked.ix, disk |-> dsk, raised |-> walked.raised,
        indexed_docs |-> walked.indexed_docs]
  ELSE SaveBuilt(build_index(walked.ix, embedOk), dsk, walked.indexed_docs)

\* a new DocumentIndex filled from the knowledge base, built and saved
\* (routes_retrieval.py:42-52 and 106-116): the instance, the files afterwards
\* and the exception that ended it
RebuildFromKb(files, dsk, embedOk) ==
  BuildWalked(IngestKb(NewDocumentIndex, files, 0), dsk, embedOk)

\* except Exception: document_index = DocumentIndex()
OrEmptyIndex(made, dsk) ==
  [ix |-> IF made.raised # "none" THEN NewDocumentIndex ELSE made.ix, disk |-> dsk]

\* the index get_rag_pipeline gives the pipeline of a router on first use, and
\* the files afterwards.  The retrieval and generation routers load the saved
\* index or build one, and fall back to an empty DocumentIndex() on any
\* exception (routes_retrieval.py:38-54, routes_generation.py:47-66); the chat
\* router takes an empty DocumentIndex() (routes_chat.py:29).
InitialIndex(router, files, dsk, embedOk) ==
  IF router = "chat" THEN [ix |-> NewDocumentIndex, disk |-> dsk]
  ELSE IF dsk.faiss.present THEN OrEmptyIndex(load(dsk), dsk)
  ELSE OrEmptyIndex(RebuildFromKb(files, dsk, embedOk),
                    RebuildFromKb(files, dsk, embedOk).disk)

\* Depends(get_rag_pipeline) of a request on a router: the instances, the
\* routers' pipelines and the files once the router has its pipeline, which
\* is built around the index first when the router has none
Resolved(router, first) ==
  IF routers[router] # 0
  THEN [heap |-> heap, routers |-> routers, disk |-> disk]
  ELSE [heap |-> Append(heap, first.ix),
        routers |-> [routers EXCEPT ![router] = Len(heap) + 1],
        disk |-> first.disk]

InitServe ==
  /\ dix = NewDocumentIndex /\ last = NoOp /\ producedBy = <<>>
  /\ ask = AskIdle /\ answers = {} /\ webAnswered = {}
  /\ heap = <<>>
  /\ pipelineIndex = 0
  /\ cfg = [generator |-> "none", searchKey |-> FALSE]
  /\ disk = NoDisk
  /\ kb \in SampleKbs
  /\ rx = RxIdle
  /\ sr = SrIdle
  /\ published = {}
  /\ AppAtRest
  /\ db = EmptyDb

\* the record of a query request answered on the index ix, instance ref.
\* chat_endpoint reads response.context off the dict that query returns and
\* answers 500 (routes_chat.py:72-85).
Served(router, ref, ix, query, top_k, raised, results) ==
  [SrIdle EXCEPT
     !.pc = "done", !.endpoint = router, !.query = query, !.top_k = top_k,
     !.ref = ref, !.raised = raised,
     !.results = IF raised = "none" THEN results ELSE <<>>,
     !.status = IF raised = "none" THEN 200 ELSE 500,
     !.obs = [NoObs EXCEPT !.index = ix.index, !.mapped = TRUE,
                           !.guardChunks = ix.chunks, !.chunks = ix.chunks,
                           !.documents = ix.documents,
                           !.chunk_to_doc = ix.chunk_to_doc]]

\* the request runs on the resolved pipeline: it retrieves from its index
ServeOn(router, now, query, top_k) ==
  /\ heap' = now.heap
  /\ routers' = now.routers
  /\ disk' = now.disk
  /\ \E out \in retrieve(now.heap[now.routers[router]], query, top_k,
                         ScoreThreshold, TRUE) :
       sr' = Served(router, now.routers[router], now.heap[now.routers[router]],
                    query, top_k,
                    IF out.raised = "none" /\ router = "chat"
                    THEN "AttributeError" ELSE out.raised,
                    out.results)

\* a query request on a router: GET /search, POST /ask or POST /chat, answered
\* by the pipeline of that router from its own index
Serve(router) ==
  /\ sr.pc = "idle"
  /\ routers[router] # 0 \/ Len(heap) < MaxInstances
  /\ \E query \in SampleQueries, top_k \in 1..MaxTopK, embedOk \in BOOLEAN :
       ServeOn(router, Resolved(router, InitialIndex(router, kb, disk, embedOk)),
               query, top_k)
  /\ UNCHANGED <<indexVars, queryVars, pipelineIndex, cfg, kb, rx, published, db, req>>

\* the query request has its response
ServeFinish ==
  /\ sr.pc = "done"
  /\ sr' = SrIdle
  /\ UNCHANGED <<appVars, indexVars, queryVars, pipeVars, kb, rx, published>>

\* reindex_kb on the resolved pipeline (routes_retrieval.py:103-121): the new
\* index made replaces the pipeline's index unless an exception ended it
ReindexOn(now, made) ==
  /\ heap' = Append(now.heap, made.ix)
  /\ disk' = made.disk
  /\ IF made.raised # "none"
     THEN /\ routers' = now.routers
          /\ rx' = [RxIdle EXCEPT !.pc = "done", !.status = 500,
                                  !.new_index = Len(now.heap) + 1]
     ELSE /\ routers' = [now.routers EXCEPT !["retrieval"] = Len(now.heap) + 1]
          /\ rx' = [RxIdle EXCEPT !.pc = "done", !.status = 200,
                                  !.new_index = Len(now.heap) + 1,
                                  !.cursor = Len(kb),
                                  !.indexed_docs = made.indexed_docs]

\* the files after the retrieval router has its pipeline
DiskResolved(first) == IF routers["retrieval"] # 0 THEN disk ELSE first.disk

\* one whole POST /reindex: the retrieval router's pipeline is resolved, a new
\* index is filled, built and saved, and on success it replaces the index of
\* that pipeline (routes_retrieval.py:100-121)
ReindexKb ==
  /\ sr.pc = "idle"
  /\ Len(heap) + (IF routers["retrieval"] = 0 THEN 2 ELSE 1) <= MaxInstances
  /\ \E embedOk \in BOOLEAN :
       ReindexOn(Resolved("retrieval", InitialIndex("retrieval", kb, disk, embedOk)),
                 RebuildFromKb(kb, DiskResolved(InitialIndex("retrieval", kb, disk, embedOk)),
                               embedOk))
  /\ UNCHANGED <<indexVars, queryVars, pipelineIndex, cfg, kb, sr, published, db, req>>

\* the files of the knowledge base directory are replaced
EditKb ==
  /\ \E files \in SampleKbs : files # kb /\ kb' = files
  /\ UNCHANGED <<appVars, indexVars, queryVars, pipeVars, rx, sr, published>>

NextServe ==
  \/ \E router \in Routers : Serve(router)
  \/ ServeFinish
  \/ ReindexKb
  \/ EditKb

SpecServe == InitServe /\ [][NextServe]_vars

\* C30: once a reindex request has completed successfully, every later query,
\* through the search, the ask or the chat endpoint, is answered from the
\* index that reindex built.
C30_QueriesServeNewIndex ==
  (rx.pc = "done" /\ rx.status = 200 /\ sr.pc = "done")
    => heap[sr.ref] = heap[rx.new_index]

====
